---- MODULE Spec2Model ----
(***************************************************************************)
(* Snapshot storage of the city-cycling station tracker: the TSV codec,    *)
(* the snapshot naming scheme, the local-filesystem backend (TSVStorage)   *)
(* and the object-store backend (R2Storage).                               *)
(*                                                                         *)
(* Text is modelled as text: a string is a TLC string, a character is a    *)
(* string of length 1, and formatting and parsing are computed character   *)
(* by character as the Go code and its library calls compute them.         *)
(*                                                                         *)
(* Time: an instant is a number of seconds, or of half-second ticks, after *)
(* Origin (2026-02-09T23:59:58Z); the instants of the model stay inside    *)
(* the years 2026 and 2027, where the calendar below is exact.             *)
(***************************************************************************)
EXTENDS Integers, Sequences, FiniteSets, TLC

VARIABLES
    \* ---- codec specification (SpecCodec)
    cSource,      \* "written": the body comes from WriteStations; "raw": any body
    cStations,    \* the station list handed to WriteStations
    cTick,        \* the instant time.Now() returned, in ticks after Origin
    cBody,        \* the snapshot body (the file's or the object's bytes)
    cPhase,       \* "input" -> "encoded" -> "decoded"
    cTSV,         \* what readTSVFile returned for cBody
    cR2,          \* what GetSnapshot returned for cBody
    \* ---- local-filesystem backend (SpecTSV)
    tDataDir,     \* TSVStorage.dataDir, as configured
    tDirState,    \* the data directory: "missing", "ok" or "unreadable"
    tEntries,     \* the directory's entries: name -> [isDir, body]
    tNow,         \* the wall clock, in seconds after Origin
    tWrites,      \* WriteStations calls made so far
    tRet,         \* the last operation and what it returned
    tOpen,        \* the file a WriteStations in progress has created and not yet flushed
    \* ---- object-store backend (SpecR2)
    rPrefix,      \* R2Storage.prefix
    rObjects,     \* the bucket: key -> body
    rNow,         \* the wall clock, in seconds after Origin
    rWrites,      \* WriteStations, DeleteSnapshot and PutObject calls made so far
    rRet,         \* the last operation and what it returned
    rFirst,       \* history: key -> the body WriteStations first wrote under it
    rRewritten,   \* history: the keys written again after WriteStations wrote them
    \* ---- snapshot naming (SpecNaming)
    nPrefix,      \* the prefix both keys are built under
    nT1,          \* the first instant, in ticks
    nT2,          \* the second instant, in ticks
    nKey1,        \* the key built for nT1 ("" until it is built)
    nKey2,        \* the key built for nT2 ("" until it is built)
    \* ---- server start-up (SpecServer)
    sArgs,        \* os.Args[1:], the command-line arguments
    sEnv,         \* the process environment: name -> value ("" when unset)
    sPc,          \* "main" -> "parsed" -> "env" -> "serving" or "fatal"
    sUseR2,       \* *useR2
    sPort,        \* *port
    sDataDir,     \* *dataDir
    sStore,       \* the backend main built: "" (none yet), "r2" or "tsv"
    \* ---- collectors (SpecCollector)
    kMode,        \* "r2": cmd/collector-r2, "tsv": cmd/collector
    kOneShot,     \* *oneShot || *interval == 0
    kPc,          \* where main is: "start", "fetch", "store", "select", "exited", "fatal", "killed"
    kInitial,     \* the fetchAndStore in progress is the initial one
    kCtx,         \* the context the storage call in progress was given
    kResp,        \* how the substrate answers the call in progress: "ok", "err", "never"
    kTick,        \* a tick is waiting in ticker.C
    kSig,         \* a signal is waiting in sigChan
    kFired,       \* ticks the ticker has sent so far
    kWrites,      \* snapshots written so far
    \* ---- web handler (SpecWeb, SpecStations)
    wStore,       \* the capability of Handler.store: "r2" or "tsv"
    wNow,         \* the wall clock, in minutes
    wStarted,     \* requests started so far
    wReq,         \* the requests in flight: slot -> request record
    historyCache, \* Handler.historyCache
    historyCacheTime, \* Handler.historyCacheTime, in minutes
    historyCacheMu, \* Handler.historyCacheMu: [readers, writer]
    snapshotCache, \* Handler.snapshotCache: cache key -> station list
    snapshotCacheMu, \* Handler.snapshotCacheMu: [readers, writer]
    wLastHistory, \* history: the last /api/history request that completed with success
    wServed,      \* history: the cache keys of the snapshot requests that completed with success
    wStations,    \* the last response of /api/stations
    wSnaps        \* the instants of the snapshots in the handler's object store

codecVars == <<cSource, cStations, cTick, cBody, cPhase, cTSV, cR2>>

tsvVars == <<tDataDir, tDirState, tEntries, tNow, tWrites, tRet, tOpen>>

r2Vars == <<rPrefix, rObjects, rNow, rWrites, rRet, rFirst, rRewritten>>

namingVars == <<nPrefix, nT1, nT2, nKey1, nKey2>>

serverVars == <<sArgs, sEnv, sPc, sUseR2, sPort, sDataDir, sStore>>

webVars ==
    <<wStore, wNow, wStarted, wReq, historyCache, historyCacheTime,
      historyCacheMu, snapshotCache, snapshotCacheMu, wLastHistory, wServed, wStations,
      wSnaps>>

collectorVars ==
    <<kMode, kOneShot, kPc, kInitial, kCtx,
      kResp, kTick, kSig, kFired, kWrites>>

vars ==
    <<codecVars, tsvVars, r2Vars, namingVars, serverVars, collectorVars, webVars>>

\* what each part of the system leaves alone
codecOthers ==
    <<tsvVars, r2Vars, namingVars, serverVars, collectorVars, webVars>>

tsvOthers ==
    <<codecVars, r2Vars, namingVars, serverVars, collectorVars, webVars>>

r2Others ==
    <<codecVars, tsvVars, namingVars, serverVars, collectorVars, webVars>>

namingOthers ==
    <<codecVars, tsvVars, r2Vars, serverVars, collectorVars, webVars>>

serverOthers ==
    <<codecVars, tsvVars, r2Vars, namingVars, collectorVars, webVars>>

collectorOthers ==
    <<codecVars, tsvVars, r2Vars, namingVars, serverVars, webVars>>

webOthers ==
    <<codecVars, tsvVars, r2Vars, namingVars, serverVars, collectorVars>>

-----------------------------------------------------------------------------
(* Bounds of the model *)

\* the clock runs from tick 0 to MaxTick (two ticks to the second)
MaxTick == 5
\* stations per snapshot handed to the codec
MaxStations == 2
\* lines of a raw (not WriteStations-made) body
MaxRawLines == 3
\* WriteStations calls in one run of a backend
MaxWrites == 2
\* the backends' clocks run from second 0 to MaxSecond after Origin
MaxSecond == 2

-----------------------------------------------------------------------------
(* Characters and strings *)

At(s, i) == SubSeq(s, i, i)

\* the characters of the model in byte order, for Go's string comparison
AsciiOrder ==
    "\t\n\r +-./0123456789:ABCDEFGHIJKLMNOPQRSTUVWXYZ_abcdefghijklmnopqrstuvwxyz"

\* the place of each character in that order
OrdTable ==
    [c \in {At(AsciiOrder, i) : i \in 1..Len(AsciiOrder)} |->
        CHOOSE i \in 1..Len(AsciiOrder) : At(AsciiOrder, i) = c]

Ord(c) == OrdTable[c]

\* a < b from character i on, the characters before i being the same
RECURSIVE StrLessFrom(_, _, _)
StrLessFrom(a, b, i) ==
    IF i > Len(b) THEN FALSE
    ELSE IF i > Len(a) THEN TRUE
    ELSE IF At(a, i) = At(b, i) THEN StrLessFrom(a, b, i + 1)
    ELSE Ord(At(a, i)) < Ord(At(b, i))

\* Go's a < b on strings: byte-wise lexicographic
StrLess(a, b) == a # b /\ StrLessFrom(a, b, 1)

HasPrefix(s, p) == Len(s) >= Len(p) /\ SubSeq(s, 1, Len(p)) = p

HasSuffix(s, p) == Len(s) >= Len(p) /\ SubSeq(s, Len(s) - Len(p) + 1, Len(s)) = p

TrimPrefix(s, p) == IF HasPrefix(s, p) THEN SubSeq(s, Len(p) + 1, Len(s)) ELSE s

TrimSuffix(s, p) == IF HasSuffix(s, p) THEN SubSeq(s, 1, Len(s) - Len(p)) ELSE s

\* index of the first occurrence of character c in s at or after i, 0 when
\* there is none
RECURSIVE IndexFrom(_, _, _)
IndexFrom(s, c, i) ==
    IF i > Len(s) THEN 0 ELSE IF At(s, i) = c THEN i ELSE IndexFrom(s, c, i + 1)

\* strings.IndexByte(s, c) + 1
IndexOf(s, c) == IndexFrom(s, c, 1)

\* strings.ReplaceAll(s, old, new) for one-character old and new
RECURSIVE ReplaceAll(_, _, _)
ReplaceAll(s, old, new) ==
    IF s = "" THEN ""
    ELSE (IF Head(s) = old THEN new ELSE Head(s)) \o ReplaceAll(Tail(s), old, new)

\* strings.Split(s, sep) for a one-character sep: always at least one field
RECURSIVE Split(_, _)
Split(s, sep) ==
    LET i == IndexOf(s, sep)
    IN  IF i = 0 THEN <<s>>
        ELSE <<SubSeq(s, 1, i - 1)>> \o Split(SubSeq(s, i + 1, Len(s)), sep)

IsDigit(c) == c \in {"0", "1", "2", "3", "4", "5", "6", "7", "8", "9"}

DigitVal(c) == Ord(c) - Ord("0")

DigitChar(d) == At("0123456789", d + 1)

\* the value of a string of decimal digits
RECURSIVE DigitsVal(_)
DigitsVal(s) ==
    IF s = "" THEN 0
    ELSE DigitsVal(SubSeq(s, 1, Len(s) - 1)) * 10 + DigitVal(At(s, Len(s)))

AllDigits(s) == \A i \in 1..Len(s) : IsDigit(At(s, i))

\* the longest prefix of s made of characters of the set cs
RECURSIVE TakeWhile(_, _)
TakeWhile(s, cs) ==
    IF s = "" \/ Head(s) \notin cs THEN ""
    ELSE Head(s) \o TakeWhile(Tail(s), cs)

-----------------------------------------------------------------------------
(* Numbers as text: fmt's %d and %.6f, strconv.Atoi / ParseFloat, fmt.Sscanf *)

RECURSIVE NatStr(_)
NatStr(n) == IF n < 10 THEN DigitChar(n) ELSE NatStr(n \div 10) \o DigitChar(n % 10)

\* fmt.Sprintf("%d", n)
Itoa(n) == IF n < 0 THEN "-" \o NatStr(-n) ELSE NatStr(n)

\* n in decimal, zero-padded on the left to w digits (time.Format's 2006, 01, 02,
\* 15, 04, 05; the fraction of %.6f)
Pad(n, w) ==
    LET s == NatStr(n)
    IN  IF Len(s) >= w THEN s ELSE SubSeq("000000", 1, w - Len(s)) \o s

\* A latitude or longitude is held in micro-degrees: the values the feed gives
\* with at most six decimals, which "%.6f" writes exactly.
FormatF6(v) ==
    LET a == IF v < 0 THEN -v ELSE v
    IN  (IF v < 0 THEN "-" ELSE "") \o NatStr(a \div 1000000) \o "."
            \o Pad(a % 1000000, 6)

\* strconv.Atoi(s): an optional sign, then digits and nothing else; the value
\* returned with an error is 0 (the model's numbers stay far inside int64)
Atoi(s) ==
    LET signed == s # "" /\ Head(s) \in {"+", "-"}
        digits == IF signed THEN Tail(s) ELSE s
    IN  IF digits # "" /\ AllDigits(digits)
        THEN [ok |-> TRUE, v |-> IF signed /\ Head(s) = "-" THEN -DigitsVal(digits)
                                 ELSE DigitsVal(digits)]
        ELSE [ok |-> FALSE, v |-> 0]

\* strconv.ParseFloat(s, 64) on plain decimals ([sign] digits [. digits]), in
\* micro-degrees; exponent, hexadecimal, Inf and NaN spellings are not inputs of
\* the model. The value returned with an error is 0.
ParseFloat(s) ==
    LET signed == s # "" /\ Head(s) \in {"+", "-"}
        body   == IF signed THEN Tail(s) ELSE s
        dot    == IndexOf(body, ".")
        ip     == IF dot = 0 THEN body ELSE SubSeq(body, 1, dot - 1)
        fp     == IF dot = 0 THEN "" ELSE SubSeq(body, dot + 1, Len(body))
        fp6    == SubSeq(fp \o "000000", 1, 6)
        mag    == DigitsVal(ip) * 1000000 + DigitsVal(fp6)
    IN  IF AllDigits(ip) /\ AllDigits(fp) /\ (ip # "" \/ fp # "")
        THEN [ok |-> TRUE, v |-> IF signed /\ Head(s) = "-" THEN -mag ELSE mag]
        ELSE [ok |-> FALSE, v |-> 0]

\* the characters fmt's SkipSpace passes over inside one line
SpaceChars == {" ", "\t", "\r"}

RECURSIVE SkipSpace(_)
SkipSpace(s) == IF s # "" /\ Head(s) \in SpaceChars THEN SkipSpace(Tail(s)) ELSE s

\* fmt's decimalDigits: the digits and the underscore
ScanDigits == {"0", "1", "2", "3", "4", "5", "6", "7", "8", "9", "_"}

\* fmt.Sscanf(s, "%d", &x) on x = 0: leading space is skipped, a sign is accepted,
\* then the longest run of digits/underscores is the token handed to ParseInt
\* (base 10, which rejects an underscore); what follows the token is not read.
\* On any error x keeps its zero.
SscanfD(s) ==
    LET t    == SkipSpace(s)
        sg   == IF t # "" /\ Head(t) \in {"+", "-"} THEN Head(t) ELSE ""
        rest == IF sg = "" THEN t ELSE Tail(t)
        run  == TakeWhile(rest, ScanDigits)
    IN  IF run = "" \/ ~AllDigits(run) THEN 0
        ELSE IF sg = "-" THEN -DigitsVal(run) ELSE DigitsVal(run)

\* fmt.Sscanf(s, "%f", &x) on x = 0: the token is [sign] digits [. digits]
\* (floatToken), parsed by ParseFloat; what follows the token is not read.
SscanfF(s) ==
    LET t    == SkipSpace(s)
        sg   == IF t # "" /\ Head(t) \in {"+", "-"} THEN Head(t) ELSE ""
        rest == IF sg = "" THEN t ELSE Tail(t)
        ip   == TakeWhile(rest, ScanDigits)
        r2   == SubSeq(rest, Len(ip) + 1, Len(rest))
        fp   == IF r2 # "" /\ Head(r2) = "." THEN "." \o TakeWhile(Tail(r2), ScanDigits)
                ELSE ""
    IN  ParseFloat(sg \o ip \o fp).v

-----------------------------------------------------------------------------
(* Time: time.Now().UTC(), Format and Parse *)

\* days of the year before each month of 2026
DaysBefore == <<0, 31, 59, 90, 120, 151, 181, 212, 243, 273, 304, 334>>

DaysIn == <<31, 28, 31, 30, 31, 30, 31, 31, 30, 31, 30, 31>>

\* seconds after 2026-01-01T00:00:00Z of a civil date and time
SecsOf(y, mo, d, h, mi, s) ==
    (((y - 2026) * 365 + DaysBefore[mo] + (d - 1)) * 24 + h) * 3600 + mi * 60 + s

\* the civil date and time of a number of seconds after 2026-01-01T00:00:00Z
Civil(sec) ==
    LET days == sec \div 86400
        doy  == days % 365
        mo   == CHOOSE m \in 1..12 :
                    DaysBefore[m] <= doy /\ (m = 12 \/ doy < DaysBefore[m + 1])
        sod  == sec % 86400
    IN  [Y |-> 2026 + days \div 365, M |-> mo, D |-> doy - DaysBefore[mo] + 1,
         h |-> sod \div 3600, mi |-> (sod % 3600) \div 60, s |-> sod % 60]

\* tick 0 of the clock: 2026-02-09T23:59:58Z
Origin == SecsOf(2026, 2, 9, 23, 59, 58)

\* the second (after 2026-01-01T00:00:00Z) a tick of the clock lies in
SecOfTick(t) == Origin + t \div 2

\* a time.Time as the decoders return it: the zero Time, or a whole second
ZeroTime == [zero |-> TRUE, sec |-> 0]

TimeAt(sec) == [zero |-> FALSE, sec |-> sec]

\* t.Format("20060102_150405")
FormatCompact(sec) ==
    LET c == Civil(sec)
    IN  Pad(c.Y, 4) \o Pad(c.M, 2) \o Pad(c.D, 2) \o "_"
            \o Pad(c.h, 2) \o Pad(c.mi, 2) \o Pad(c.s, 2)

\* t.Format(time.RFC3339) of a UTC time
FormatRFC3339(sec) ==
    LET c == Civil(sec)
    IN  Pad(c.Y, 4) \o "-" \o Pad(c.M, 2) \o "-" \o Pad(c.D, 2) \o "T"
            \o Pad(c.h, 2) \o ":" \o Pad(c.mi, 2) \o ":" \o Pad(c.s, 2) \o "Z"

\* time's getnum: one or two digits from the front of s; fixed demands two
GetNum(s, fixed) ==
    IF s = "" \/ ~IsDigit(At(s, 1)) THEN [ok |-> FALSE, v |-> 0, rest |-> s]
    ELSE IF Len(s) < 2 \/ ~IsDigit(At(s, 2))
         THEN IF fixed THEN [ok |-> FALSE, v |-> 0, rest |-> s]
              ELSE [ok |-> TRUE, v |-> DigitVal(At(s, 1)), rest |-> Tail(s)]
    ELSE [ok |-> TRUE, v |-> DigitsVal(SubSeq(s, 1, 2)), rest |-> SubSeq(s, 3, Len(s))]

\* a literal piece of a layout: the value must go on with it
Literal(s, lit) == [ok |-> HasPrefix(s, lit), rest |-> TrimPrefix(s, lit)]

\* time.Parse on the layout 2006<dsep>01<dsep>02<dtsep>15<tsep>04<tsep>05: year of
\* four digits, month, day, minute and second of two, hour of one or two, every
\* field in its range; rest is what follows the seconds. (A fraction of a second
\* after the seconds, which Parse also accepts, is not an input of the model.)
ParseLayout(v, dsep, dtsep, tsep) ==
    LET yOk == Len(v) >= 4 /\ AllDigits(SubSeq(v, 1, 4))
        y   == DigitsVal(SubSeq(v, 1, 4))
        l1  == Literal(SubSeq(v, 5, Len(v)), dsep)
        mo  == GetNum(l1.rest, TRUE)
        l2  == Literal(mo.rest, dsep)
        d   == GetNum(l2.rest, TRUE)
        l3  == Literal(d.rest, dtsep)
        h   == GetNum(l3.rest, FALSE)
        l4  == Literal(h.rest, tsep)
        mi  == GetNum(l4.rest, TRUE)
        l5  == Literal(mi.rest, tsep)
        sc  == GetNum(l5.rest, TRUE)
        ok  == /\ yOk /\ l1.ok /\ mo.ok /\ mo.v \in 1..12
               /\ l2.ok /\ d.ok /\ d.v \in 1..DaysIn[mo.v]
               /\ l3.ok /\ h.ok /\ h.v < 24
               /\ l4.ok /\ mi.ok /\ mi.v < 60
               /\ l5.ok /\ sc.ok /\ sc.v < 60
    IN  IF ok THEN [ok |-> TRUE, sec |-> SecsOf(y, mo.v, d.v, h.v, mi.v, sc.v),
                    rest |-> sc.rest]
        ELSE [ok |-> FALSE, sec |-> 0, rest |-> ""]

\* time.Parse("20060102_150405", v): the zero Time comes with every error
ParseCompact(v) ==
    LET p == ParseLayout(v, "", "_", "")
    IN  IF p.ok /\ p.rest = "" THEN [ok |-> TRUE, t |-> TimeAt(p.sec)]
        ELSE [ok |-> FALSE, t |-> ZeroTime]

\* the zone of RFC 3339 ("Z07:00"): Z, or +hh:mm / -hh:mm, in seconds east of UTC
ParseZone(z) ==
    IF z = "Z" THEN [ok |-> TRUE, off |-> 0]
    ELSE IF /\ Len(z) = 6 /\ At(z, 1) \in {"+", "-"} /\ At(z, 4) = ":"
            /\ AllDigits(SubSeq(z, 2, 3)) /\ AllDigits(SubSeq(z, 5, 6))
            /\ DigitsVal(SubSeq(z, 2, 3)) <= 24 /\ DigitsVal(SubSeq(z, 5, 6)) <= 60
         THEN [ok |-> TRUE,
               off |-> (IF At(z, 1) = "-" THEN -1 ELSE 1)
                         * (DigitsVal(SubSeq(z, 2, 3)) * 3600 + DigitsVal(SubSeq(z, 5, 6)) * 60)]
    ELSE [ok |-> FALSE, off |-> 0]

\* time.Parse(time.RFC3339, v)
ParseRFC3339(v) ==
    LET p == ParseLayout(v, "-", "T", ":")
        z == ParseZone(p.rest)
    IN  IF p.ok /\ z.ok THEN [ok |-> TRUE, t |-> TimeAt(p.sec - z.off)]
        ELSE [ok |-> FALSE, t |-> ZeroTime]

-----------------------------------------------------------------------------
(* The snapshot codec *)

TSVHeader ==
    "timestamp\tid\tname\tlat\tlong\tnb_bikes\tnb_standard_bikes\tnb_ebikes\tnb_empty_docks\tnb_docks"

\* one station's line, as both WriteStations format it
FormatRow(tsStr, station) ==
    tsStr \o "\t" \o Itoa(station.ID)
          \o "\t" \o ReplaceAll(station.Name, "\t", " ")
          \o "\t" \o FormatF6(station.Lat)
          \o "\t" \o FormatF6(station.Long)
          \o "\t" \o Itoa(station.NbBikes)
          \o "\t" \o Itoa(station.NbStandardBikes)
          \o "\t" \o Itoa(station.NbEBikes)
          \o "\t" \o Itoa(station.NbEmptyDocks)
          \o "\t" \o Itoa(station.NbDocks) \o "\n"

RECURSIVE FormatRows(_, _)
FormatRows(tsStr, stations) ==
    IF stations = <<>> THEN ""
    ELSE FormatRow(tsStr, Head(stations)) \o FormatRows(tsStr, Tail(stations))

\* the body WriteStations builds for a station list at the second sec
SnapshotBody(stations, sec) ==
    TSVHeader \o "\n" \o FormatRows(FormatRFC3339(sec), stations)

\* bufio's dropCR
DropCR(line) == IF HasSuffix(line, "\r") THEN SubSeq(line, 1, Len(line) - 1) ELSE line

\* the tokens bufio.Scanner gives with bufio.ScanLines: the text before each
\* newline, a trailing carriage return dropped, and a last unterminated line if
\* it is not empty (lines beyond the scanner's 64 KiB token limit are not
\* inputs of the model)
RECURSIVE ScanLines(_)
ScanLines(data) ==
    IF data = "" THEN <<>>
    ELSE LET i == IndexOf(data, "\n")
         IN  IF i = 0 THEN <<DropCR(data)>>
             ELSE <<DropCR(SubSeq(data, 1, i - 1))>>
                      \o ScanLines(SubSeq(data, i + 1, Len(data)))

\* a row filter that also skips the lines of exactly 10 fields
RECURSIVE DataRowsOver10(_)
DataRowsOver10(lines) ==
    IF lines = <<>> THEN <<>>
    ELSE LET fields == Split(Head(lines), "\t")
         IN  (IF Len(fields) <= 10 THEN <<>> ELSE <<fields>>)
                 \o DataRowsOver10(Tail(lines))

\* the lines after the header that are kept: split at tabs, 10 fields or more
RECURSIVE DataRows(_)
DataRows(lines) ==
    IF lines = <<>> THEN <<>>
    ELSE LET fields == Split(Head(lines), "\t")
         IN  (IF Len(fields) < 10 THEN <<>> ELSE <<fields>>) \o DataRows(Tail(lines))

\* a timestamp taken from the first row whose timestamp cell parses
RECURSIVE FirstParseableTimestamp(_)
FirstParseableTimestamp(rows) ==
    IF rows = <<>> THEN ZeroTime
    ELSE IF ParseRFC3339(rows[1][1]).ok THEN ParseRFC3339(rows[1][1]).t
    ELSE FirstParseableTimestamp(Tail(rows))

\* the timestamp of a decoded body: parsed from the first kept row, errors ignored
FirstRowTimestamp(rows) ==
    IF rows = <<>> THEN ZeroTime ELSE ParseRFC3339(rows[1][1]).t

\* a decoder's result: (stations, timestamp, error); err = "" is a nil error
Decoded(stations, timestamp) == [err |-> "", stations |-> stations, timestamp |-> timestamp]

Failed(err) == [err |-> err, stations |-> <<>>, timestamp |-> ZeroTime]

\* TSVStorage.readTSVFile on an opened file: strconv, errors dropped
TSVStation(fields) ==
    [ID              |-> Atoi(fields[2]).v,
     Name            |-> fields[3],
     Lat             |-> ParseFloat(fields[4]).v,
     Long            |-> ParseFloat(fields[5]).v,
     NbBikes         |-> Atoi(fields[6]).v,
     NbStandardBikes |-> Atoi(fields[7]).v,
     NbEBikes        |-> Atoi(fields[8]).v,
     NbEmptyDocks    |-> Atoi(fields[9]).v,
     NbDocks         |-> Atoi(fields[10]).v]

readTSVFile(body) ==
    LET lines == ScanLines(body)
    IN  IF lines = <<>> THEN Failed("empty file")
        ELSE LET rows == DataRows(Tail(lines))
             IN  Decoded([i \in 1..Len(rows) |-> TSVStation(rows[i])],
                         FirstRowTimestamp(rows))

\* R2Storage.GetSnapshot on a fetched object: fmt.Sscanf, errors dropped
R2Station(fields) ==
    [ID              |-> SscanfD(fields[2]),
     Name            |-> fields[3],
     Lat             |-> SscanfF(fields[4]),
     Long            |-> SscanfF(fields[5]),
     NbBikes         |-> SscanfD(fields[6]),
     NbStandardBikes |-> SscanfD(fields[7]),
     NbEBikes        |-> SscanfD(fields[8]),
     NbEmptyDocks    |-> SscanfD(fields[9]),
     NbDocks         |-> SscanfD(fields[10])]

GetSnapshotBody(body) ==
    LET lines == ScanLines(body)
    IN  IF lines = <<>> THEN Failed("empty file")
        ELSE LET rows == DataRows(Tail(lines))
             IN  Decoded([i \in 1..Len(rows) |-> R2Station(rows[i])],
                         FirstRowTimestamp(rows))

-----------------------------------------------------------------------------
(* SpecCodec: WriteStations' body and the two decoders, on bounded inputs *)

\* the stations the feed may hand over: plain names, names with a tab, names with a newline
Stations ==
    [ID : {12, -3}, Name : {"Ab", "A\tb", "A\nb"},
     Lat : {51529163}, Long : {-109971},
     NbBikes : {3}, NbStandardBikes : {1}, NbEBikes : {2},
     NbEmptyDocks : {10}, NbDocks : {19}]

\* all sequences over S of length at most n
RECURSIVE SeqsUpTo(_, _)
SeqsUpTo(S, n) ==
    IF n = 0 THEN {<<>>}
    ELSE LET shorter == SeqsUpTo(S, n - 1)
         IN  shorter \cup {Append(q, x) : q \in shorter, x \in S}

StationLists == SeqsUpTo(Stations, MaxStations)

\* cells a damaged file may hold where a number is expected
NumberCells == {"12", "12abc", "abc"}

\* a line of ten columns whose id and nb_bikes cells are the given text
RawRow(tsCell, cell) ==
    tsCell \o "\t" \o cell \o "\tAb\t51.5\t-0.25\t" \o cell \o "\t1\t2\t10\t19"

\* the lines raw bodies are made of: the header, an empty line, a short line,
\* ten-column lines with each number cell, one with an unparseable timestamp
RawLines ==
    {TSVHeader, "", "x\ty"}
        \cup {RawRow(FormatRFC3339(Origin), c) : c \in NumberCells}
        \cup {RawRow("bad", "12")}

RECURSIVE JoinLines(_)
JoinLines(lines) ==
    IF lines = <<>> THEN "" ELSE Head(lines) \o "\n" \o JoinLines(Tail(lines))

\* raw bodies: up to MaxRawLines lines, the last with or without its newline
RawBodies ==
    LET terminated == {JoinLines(q) : q \in SeqsUpTo(RawLines, MaxRawLines)}
    IN  terminated \cup {SubSeq(b, 1, Len(b) - 1) : b \in terminated \ {""}}

NotRun == Failed("not run")

InitCodec ==
    /\ cSource \in {"written", "raw"}
    /\ cTSV = NotRun
    /\ cR2 = NotRun
    /\ \/ /\ cSource = "written"
          /\ cStations \in StationLists
          /\ cTick \in 0..MaxTick
          /\ cBody = ""
          /\ cPhase = "input"
       \/ /\ cSource = "raw"
          /\ cStations = <<>>
          /\ cTick = 0
          /\ cBody \in RawBodies
          /\ cPhase = "encoded"

\* WriteStations builds the body for (cStations, time.Now() = cTick)
Encode ==
    /\ cPhase = "input"
    /\ cBody' = SnapshotBody(cStations, SecOfTick(cTick))
    /\ cPhase' = "encoded"
    /\ UNCHANGED <<cSource, cStations, cTick, cTSV, cR2, codecOthers>>

\* the filesystem backend decodes the body
DecodeTSV ==
    /\ cPhase = "encoded"
    /\ cTSV = NotRun
    /\ cTSV' = readTSVFile(cBody)
    /\ UNCHANGED <<cSource, cStations, cTick, cBody, cPhase, cR2, codecOthers>>

\* the object-store backend decodes the body
DecodeR2 ==
    /\ cPhase = "encoded"
    /\ cR2 = NotRun
    /\ cR2' = GetSnapshotBody(cBody)
    /\ UNCHANGED <<cSource, cStations, cTick, cBody, cPhase, cTSV, codecOthers>>

NextCodec == Encode \/ DecodeTSV \/ DecodeR2

-----------------------------------------------------------------------------
(* The local-filesystem backend: TSVStorage over one data directory *)

RECURSIVE JoinWith(_, _)
JoinWith(elems, sep) ==
    IF elems = <<>> THEN ""
    ELSE IF Len(elems) = 1 THEN elems[1]
    ELSE elems[1] \o sep \o JoinWith(Tail(elems), sep)

\* the elements filepath.Clean keeps: empty and "." elements go, ".." takes the
\* element before it with it (or goes, at the root)
RECURSIVE CleanElems(_, _, _)
CleanElems(elems, out, rooted) ==
    IF elems = <<>> THEN out
    ELSE LET e == Head(elems)
         IN  IF e = "" \/ e = "." THEN CleanElems(Tail(elems), out, rooted)
             ELSE IF e # ".." THEN CleanElems(Tail(elems), Append(out, e), rooted)
             ELSE IF out # <<>> /\ out[Len(out)] # ".."
                  THEN CleanElems(Tail(elems), SubSeq(out, 1, Len(out) - 1), rooted)
             ELSE IF rooted THEN CleanElems(Tail(elems), out, rooted)
             ELSE CleanElems(Tail(elems), Append(out, ".."), rooted)

\* filepath.Clean
Clean(path) ==
    LET rooted == HasPrefix(path, "/")
        kept   == JoinWith(CleanElems(Split(path, "/"), <<>>, rooted), "/")
    IN  IF rooted THEN "/" \o kept ELSE IF kept = "" THEN "." ELSE kept

\* filepath.Join(dir, name)
Join(dir, name) ==
    IF dir = "" THEN Clean(name)
    ELSE IF name = "" THEN Clean(dir)
    ELSE Clean(dir \o "/" \o name)

\* the data directories the storage may be configured with: one directory
DataDirs == {"data", "data/", "./data"}

\* the file name WriteStations gives the snapshot of the second sec
SnapshotFilename(sec) == "stations_" \o FormatCompact(sec) \o ".tsv"

\* the entry of the data directory a path built by filepath.Join names
BaseName(path) ==
    LET elems == Split(path, "/") IN elems[Len(elems)]

\* a finite set of strings in ascending byte order
RECURSIVE Ascending(_)
Ascending(S) ==
    IF S = {} THEN <<>>
    ELSE LET least == CHOOSE x \in S : \A y \in S \ {x} : StrLess(x, y)
         IN  <<least>> \o Ascending(S \ {least})

Reverse(q) == [i \in 1..Len(q) |-> q[Len(q) + 1 - i]]

Rotate(q) == IF q = <<>> THEN q ELSE Tail(q) \o <<Head(q)>>

\* the orders a listing may return the names S in: sorted, as os.ReadDir and
\* the object store document it, and orders that are not sorted
ListingOrders(S) ==
    LET asc == Ascending(S)
    IN  {asc, Reverse(asc), Rotate(asc)}

\* a listing left in the order the directory returned it
SortNothing(files) == files

\* sort.Sort(sort.Reverse(sort.StringSlice(files))): descending byte order
RECURSIVE SortDescending(_)
SortDescending(files) ==
    IF files = <<>> THEN <<>>
    ELSE LET m == CHOOSE i \in 1..Len(files) :
                      \A j \in 1..Len(files) : ~StrLess(files[i], files[j])
         IN  <<files[m]>> \o SortDescending(SubSeq(files, 1, m - 1)
                                                \o SubSeq(files, m + 1, Len(files)))

\* the entries listTSVFiles keeps, in the order os.ReadDir gave them, as paths
RECURSIVE MatchingFiles(_, _, _)
MatchingFiles(dataDir, entries, order) ==
    IF order = <<>> THEN <<>>
    ELSE LET name == Head(order)
         IN  (IF /\ ~entries[name].isDir
                 /\ HasPrefix(name, "stations_")
                 /\ HasSuffix(name, ".tsv")
              THEN <<Join(dataDir, name)>> ELSE <<>>)
                 \o MatchingFiles(dataDir, entries, Tail(order))

ErrReadDir == "failed to read data directory"

ErrNoData == "no station data files found"

\* a listTSVFiles that reports a missing directory like any other failure
listTSVFilesStrict(dataDir, dirState, entries, order) ==
    IF dirState # "ok" THEN [err |-> ErrReadDir, files |-> <<>>]
    ELSE [err |-> "", files |-> SortDescending(MatchingFiles(dataDir, entries, order))]

\* TSVStorage.listTSVFiles; order is the order os.ReadDir returned the entries in
listTSVFiles(dataDir, dirState, entries, order) ==
    IF dirState = "missing" THEN [err |-> "", files |-> <<>>]
    ELSE IF dirState = "unreadable" THEN [err |-> ErrReadDir, files |-> <<>>]
    ELSE [err |-> "", files |-> SortDescending(MatchingFiles(dataDir, entries, order))]

\* TSVStorage.parseFilenameTimestamp
parseFilenameTimestamp(dataDir, filepath) ==
    LET base == TrimSuffix(TrimPrefix(filepath, dataDir \o "/"), ".tsv")
    IN  ParseCompact(TrimPrefix(base, "stations_"))

\* the timestamps ListAvailableTimestamps collects: names that do not parse are skipped
RECURSIVE ParsedTimestamps(_, _)
ParsedTimestamps(dataDir, files) ==
    IF files = <<>> THEN <<>>
    ELSE LET ts == parseFilenameTimestamp(dataDir, Head(files))
         IN  (IF ts.ok THEN <<ts.t>> ELSE <<>>) \o ParsedTimestamps(dataDir, Tail(files))

\* what an operation of the backend returned; the fields an operation does not
\* return keep their zero
Ret(op, err) ==
    [op |-> op, err |-> err, path |-> "", tick |-> 0, stations |-> <<>>,
     timestamp |-> ZeroTime, timestamps |-> <<>>]

NoRet == Ret("", "")

\* no WriteStations is in progress
NoWrite == [name |-> "", stations |-> <<>>, sec |-> 0, rows |-> 0]

\* stations the collector stores in the backend runs
PlainStation ==
    [ID |-> 12, Name |-> "Ab", Lat |-> 51529163, Long |-> -109971,
     NbBikes |-> 3, NbStandardBikes |-> 1, NbEBikes |-> 2,
     NbEmptyDocks |-> 10, NbDocks |-> 19]

WriteLists == {<<>>, <<PlainStation>>}

\* what a file holds when the flush of its buffered writer failed: os.Create
\* has emptied it, and nothing of the buffer reached the disk
PartialBodies == {""}

\* entries the directory may hold before the first snapshot is written
StrayEntries ==
    { <<>>,
      [n \in {"stations_zz.tsv"} |-> [isDir |-> TRUE, body |-> ""]],
      [n \in {"notes.txt"} |-> [isDir |-> FALSE, body |-> "todo\n"]],
      [n \in {"stations_x.tsv"} |->
          [isDir |-> FALSE, body |-> JoinLines(<<TSVHeader, RawRow("bad", "12abc")>>)]] }

\* The directory is missing, or there with some entries, or there but not
\* readable by the server (its permissions; a file in its place).
InitTSV ==
    /\ \/ /\ tDataDir \in DataDirs
          /\ \/ tDirState \in {"missing", "unreadable"} /\ tEntries = <<>>
             \/ tDirState = "ok" /\ tEntries = <<>>
       \/ /\ tDataDir = "data"
          /\ tDirState = "ok"
          /\ tEntries \in StrayEntries \ {<<>>}
    /\ tNow = 0
    /\ tWrites = 0
    /\ tRet = NoRet
    /\ tOpen = NoWrite

\* time passes
TSVTick ==
    /\ tNow < MaxSecond
    /\ tNow' = tNow + 1
    /\ UNCHANGED <<tDataDir, tDirState, tEntries, tWrites, tRet, tOpen, tsvOthers>>

\* the entries with the file name holding body
WithFile(entries, name, body) ==
    [n \in DOMAIN entries \cup {name} |->
        IF n = name THEN [isDir |-> FALSE, body |-> body] ELSE entries[n]]

\* TSVStorage.WriteStations(stations) at time.Now() = Origin + tNow. fault is the step
\* that fails: os.MkdirAll, os.Create or the final Flush (the bodies of the model
\* fit the writer's 4096-byte buffer, so nothing is written before the Flush)
TSVWriteStations(stations, fault) ==
    LET name == SnapshotFilename(Origin + tNow)
        path == Join(tDataDir, name)
        madeDir == IF tDirState = "missing" THEN "ok" ELSE tDirState
    IN  /\ tWrites < MaxWrites
        /\ tWrites' = tWrites + 1
        /\ UNCHANGED <<tDataDir, tNow, tOpen, tsvOthers>>
        /\ CASE fault = "mkdir" ->
                  /\ tDirState = "missing"
                  /\ tRet' = Ret("WriteStations", "failed to create data directory")
                  /\ UNCHANGED <<tDirState, tEntries>>
             [] fault = "create" ->
                  /\ tRet' = Ret("WriteStations", "failed to create file")
                  /\ tDirState' = madeDir
                  /\ UNCHANGED tEntries
             [] fault = "flush" ->
                  /\ tRet' = Ret("WriteStations", "failed to flush writer")
                  /\ tDirState' = madeDir
                  /\ \E left \in PartialBodies : tEntries' = WithFile(tEntries, name, left)
             [] OTHER ->
                  /\ tRet' = [Ret("WriteStations", "") EXCEPT !.path = path, !.tick = tNow]
                  /\ tDirState' = madeDir
                  /\ tEntries' = WithFile(tEntries, name,
                                          SnapshotBody(stations, Origin + tNow))

\* what TSVStorage.ReadLatestStations() returns for the directory as it is; order
\* is the order os.ReadDir lists the entries in
ReadLatestStations(order) ==
    LET listed == listTSVFiles(tDataDir, tDirState, tEntries, order)
    IN  IF listed.err # "" THEN Ret("ReadLatestStations", listed.err)
        ELSE IF Len(listed.files) = 0 THEN Ret("ReadLatestStations", ErrNoData)
        ELSE LET read == readTSVFile(tEntries[BaseName(listed.files[1])].body)
             IN  [Ret("ReadLatestStations", read.err) EXCEPT
                      !.path = listed.files[1],
                      !.stations = read.stations,
                      !.timestamp = read.timestamp]

\* a call of TSVStorage.ReadLatestStations()
TSVReadLatestStations(order) ==
    /\ tRet' = ReadLatestStations(order)
    /\ UNCHANGED <<tDataDir, tDirState, tEntries, tNow, tWrites, tOpen, tsvOthers>>

\* TSVStorage.ListAvailableTimestamps()
TSVListAvailableTimestamps(order) ==
    LET listed == listTSVFiles(tDataDir, tDirState, tEntries, order)
    IN  /\ tRet' =
              IF listed.err # "" THEN Ret("ListAvailableTimestamps", listed.err)
              ELSE [Ret("ListAvailableTimestamps", "") EXCEPT
                        !.timestamps = ParsedTimestamps(tDataDir, listed.files)]
        /\ UNCHANGED <<tDataDir, tDirState, tEntries, tNow, tWrites, tOpen, tsvOthers>>

NextTSV ==
    \/ TSVTick
    \/ \E stations \in WriteLists, fault \in {"none", "mkdir", "create", "flush"} :
          TSVWriteStations(stations, fault)
    \/ \E order \in ListingOrders(DOMAIN tEntries) : TSVReadLatestStations(order)
    \/ \E order \in ListingOrders(DOMAIN tEntries) : TSVListAvailableTimestamps(order)

-----------------------------------------------------------------------------
(* The local backend with a collector writing while a server reads (SpecTorn) *)

\* the station lists the collector writes in these runs
TornLists == {<<PlainStation>>, <<PlainStation, [PlainStation EXCEPT !.ID = 13]>>}

\* the data directory is missing or empty, and no write is in progress
InitTorn ==
    /\ tDataDir \in DataDirs
    /\ tDirState \in {"missing", "ok"}
    /\ tEntries = <<>>
    /\ tNow = 0
    /\ tWrites = 0
    /\ tRet = NoRet
    /\ tOpen = NoWrite

\* TSVStorage.WriteStations up to os.Create: the directory is there and the file
\* exists under its final name, with no byte in it
WriteCreate(stations) ==
    LET name == SnapshotFilename(Origin + tNow)
    IN  /\ tOpen = NoWrite
        /\ tWrites < MaxWrites
        /\ tWrites' = tWrites + 1
        /\ tDirState' = "ok"
        /\ tEntries' = WithFile(tEntries, name, "")
        /\ tOpen' = [name |-> name, stations |-> stations, sec |-> Origin + tNow,
                     rows |-> 0]
        /\ UNCHANGED <<tDataDir, tNow, tRet, tsvOthers>>

\* the bufio.Writer is full inside a WriteString and writes its buffer to the
\* file: the header and the first rows (the buffer's 4096 bytes are taken to end
\* with a row)
WriteSpill(rows) ==
    /\ tOpen # NoWrite
    /\ tOpen.rows < rows /\ rows < Len(tOpen.stations)
    /\ tEntries' = WithFile(tEntries, tOpen.name,
                            SnapshotBody(SubSeq(tOpen.stations, 1, rows), tOpen.sec))
    /\ tOpen' = [tOpen EXCEPT !.rows = rows]
    /\ UNCHANGED <<tDataDir, tDirState, tNow, tWrites, tRet, tsvOthers>>

\* the final Flush and the return of WriteStations
WriteFlush ==
    /\ tOpen # NoWrite
    /\ tEntries' = WithFile(tEntries, tOpen.name, SnapshotBody(tOpen.stations, tOpen.sec))
    /\ tRet' = [Ret("WriteStations", "") EXCEPT
                    !.path = Join(tDataDir, tOpen.name), !.tick = tOpen.sec - Origin]
    /\ tOpen' = NoWrite
    /\ UNCHANGED <<tDataDir, tDirState, tNow, tWrites, tsvOthers>>

NextTorn ==
    \/ TSVTick
    \/ \E stations \in TornLists : WriteCreate(stations)
    \/ \E rows \in 1..MaxStations : WriteSpill(rows)
    \/ WriteFlush
    \/ \E order \in ListingOrders(DOMAIN tEntries) : TSVReadLatestStations(order)

-----------------------------------------------------------------------------
(* The object-store backend: R2Storage over one bucket *)

\* the prefix NewR2Storage keeps for a configured prefix
NewR2Storage(prefix) == IF prefix = "" THEN "snapshots/" ELSE prefix

ConfiguredPrefixes == {"", "archive/"}

\* a key whose date and time are written without leading zeros
SnapshotKeyUnpadded(prefix, sec) ==
    LET c == Civil(sec)
    IN  prefix \o "stations_" \o NatStr(c.Y) \o NatStr(c.M) \o NatStr(c.D) \o "_"
            \o NatStr(c.h) \o NatStr(c.mi) \o NatStr(c.s) \o ".tsv"

\* the key WriteStations gives the snapshot of the second sec
SnapshotKey(prefix, sec) == prefix \o "stations_" \o FormatCompact(sec) \o ".tsv"

\* the bucket after an object is put under key: a put replaces what was there
PutAt(objects, key, body) ==
    [k \in DOMAIN objects \cup {key} |-> IF k = key THEN body ELSE objects[k]]

\* the bucket after the object under key is deleted
DeleteAt(objects, key) == [k \in DOMAIN objects \ {key} |-> objects[k]]

\* what an operation of the backend returned
R2Ret(op, err) ==
    [op |-> op, err |-> err, key |-> "", keys |-> <<>>, stations |-> <<>>,
     timestamp |-> ZeroTime, target |-> 0, fetched |-> <<>>, points |-> <<>>]

NoR2Ret == R2Ret("", "")

\* an object of the bucket that is not a snapshot of this storage
ForeignKey == "logs/readme.txt"

\* a body that is no snapshot: not empty, and no line of it is TSV
CorruptBody == "<html>502</html>\n"

\* the bodies PutObject is called with
PutBodies == {"", TSVHeader \o "\n"}

InitR2 ==
    /\ rPrefix \in {NewR2Storage(p) : p \in ConfiguredPrefixes}
    /\ rObjects \in {<<>>, [k \in {ForeignKey} |-> "readme\n"]}
    /\ rNow = 0
    /\ rWrites = 0
    /\ rRet = NoR2Ret
    /\ rFirst = <<>>
    /\ rRewritten = {}

\* time passes
R2Tick ==
    /\ rNow < MaxSecond
    /\ rNow' = rNow + 1
    /\ UNCHANGED <<rPrefix, rObjects, rWrites, rRet, rFirst, rRewritten, r2Others>>

\* R2Storage.WriteStations(stations) at time.Now() = Origin + rNow; uploaded tells
\* whether the store accepted the PutObject
R2WriteStations(stations, uploaded) ==
    LET key  == SnapshotKey(rPrefix, Origin + rNow)
        body == SnapshotBody(stations, Origin + rNow)
    IN  /\ rWrites < MaxWrites
        /\ rWrites' = rWrites + 1
        /\ UNCHANGED <<rPrefix, rNow, r2Others>>
        /\ IF uploaded
           THEN /\ rObjects' = PutAt(rObjects, key, body)
                /\ rRet' = [R2Ret("WriteStations", "") EXCEPT !.key = key]
                /\ rFirst' = IF key \in DOMAIN rFirst THEN rFirst
                             ELSE PutAt(rFirst, key, body)
                /\ rRewritten' = IF key \in DOMAIN rFirst THEN rRewritten \cup {key}
                                 ELSE rRewritten
           ELSE /\ rRet' = R2Ret("WriteStations", "failed to upload to R2")
                /\ UNCHANGED <<rObjects, rFirst, rRewritten>>

\* the keys ListObjectsV2 returns for the storage's prefix
ListedKeys == {k \in DOMAIN rObjects : HasPrefix(k, rPrefix)}

\* R2Storage.ListSnapshots(); order is the order the store returned the keys in,
\* page after page (the pages are appended to one slice), listed tells whether
\* every page came back
R2ListSnapshots(order, listed) ==
    /\ rRet' = IF listed
               THEN [R2Ret("ListSnapshots", "") EXCEPT !.keys = Reverse(order)]
               ELSE R2Ret("ListSnapshots", "failed to list objects")
    /\ UNCHANGED <<rPrefix, rObjects, rNow, rWrites, rFirst, rRewritten, r2Others>>

\* R2Storage.GetSnapshot(key)
R2GetSnapshot(key) ==
    /\ rRet' =
          IF key \notin DOMAIN rObjects
          THEN [R2Ret("GetSnapshot", "failed to get object") EXCEPT !.key = key]
          ELSE LET read == GetSnapshotBody(rObjects[key])
               IN  [R2Ret("GetSnapshot", read.err) EXCEPT
                        !.key = key,
                        !.stations = read.stations,
                        !.timestamp = read.timestamp]
    /\ UNCHANGED <<rPrefix, rObjects, rNow, rWrites, rFirst, rRewritten, r2Others>>

\* R2Storage.DeleteSnapshot(key): the store deletes the object if there is one
R2DeleteSnapshot(key) ==
    /\ rWrites < MaxWrites
    /\ rWrites' = rWrites + 1
    /\ rObjects' = DeleteAt(rObjects, key)
    /\ rRet' = [R2Ret("DeleteSnapshot", "") EXCEPT !.key = key]
    /\ UNCHANGED <<rPrefix, rNow, rFirst, rRewritten, r2Others>>

\* R2Storage.PutObject(key, data, contentType)
R2PutObject(key, data) ==
    /\ rWrites < MaxWrites
    /\ rWrites' = rWrites + 1
    /\ rObjects' = PutAt(rObjects, key, data)
    /\ rRet' = [R2Ret("PutObject", "") EXCEPT !.key = key]
    /\ rRewritten' = IF key \in DOMAIN rFirst THEN rRewritten \cup {key}
                     ELSE rRewritten
    /\ UNCHANGED <<rPrefix, rNow, rFirst, r2Others>>

\* the instant a snapshot key names: the key without the prefix, "stations_"
\* and ".tsv", parsed by the layout of the key
parseKeyTimestamp(prefix, key) ==
    ParseCompact(TrimSuffix(TrimPrefix(key, prefix \o "stations_"), ".tsv"))

AbsDiff(a, b) == IF a < b THEN b - a ELSE a - b

\* the nearest-timestamp scan: the keys are visited in the order of the
\* listing, a key that does not parse is passed over, and a key replaces the
\* best one so far only when it is strictly closer to the target, so the first
\* of the closest keys is kept; "" when no key parses
Nearest(prefix, keys, target) ==
    LET scanned == {[i |-> i, ts |-> parseKeyTimestamp(prefix, keys[i])] :
                        i \in 1..Len(keys)}
        Beats(c, d) ==
            \/ AbsDiff(c.ts.t.sec, target) < AbsDiff(d.ts.t.sec, target)
            \/ AbsDiff(c.ts.t.sec, target) = AbsDiff(d.ts.t.sec, target) /\ c.i <= d.i
    IN  IF \A c \in scanned : ~c.ts.ok THEN ""
        ELSE keys[(CHOOSE c \in scanned :
                      c.ts.ok /\ \A d \in scanned : d.ts.ok => Beats(c, d)).i]

\* the sum of an integer field over a station list
RECURSIVE Total(_, _)
Total(stations, field) ==
    IF stations = <<>> THEN 0
    ELSE Head(stations)[field] + Total(Tail(stations), field)

\* the HistoricalDataPoint of one decoded snapshot
DataPoint(read) ==
    [Timestamp       |-> read.timestamp,
     TotalBikes      |-> Total(read.stations, "NbBikes"),
     TotalEBikes     |-> Total(read.stations, "NbEBikes"),
     TotalEmptyDocks |-> Total(read.stations, "NbEmptyDocks"),
     StationCount    |-> Len(read.stations)]

\* the keys of a listing whose GetSnapshot returns no error, in the listing's order
RECURSIVE ReadableKeys(_, _)
ReadableKeys(objects, keys) ==
    IF keys = <<>> THEN <<>>
    ELSE (IF GetSnapshotBody(objects[Head(keys)]).err = "" THEN <<Head(keys)>> ELSE <<>>)
             \o ReadableKeys(objects, Tail(keys))

\* R2Storage.GetSnapshotByTimestamp(target): ListSnapshots, the scan for the
\* nearest key, and GetSnapshot of that key alone
R2GetSnapshotByTimestamp(target, order, listed) ==
    /\ \E winner \in {IF listed THEN Nearest(rPrefix, Reverse(order), Origin + target)
                       ELSE ""} :
       \E read \in {IF ~listed THEN Failed("failed to list objects")
                     ELSE IF order = <<>> THEN Failed("no snapshots available")
                     ELSE IF winner = "" THEN Failed("no matching snapshot found")
                     ELSE GetSnapshotBody(rObjects[winner])} :
          rRet' = [R2Ret("GetSnapshotByTimestamp", read.err) EXCEPT
                      !.target = Origin + target,
                      !.key = winner,
                      !.fetched = IF winner = "" THEN <<>> ELSE <<winner>>,
                      !.stations = read.stations,
                      !.timestamp = read.timestamp]
    /\ UNCHANGED <<rPrefix, rObjects, rNow, rWrites, rFirst, rRewritten, r2Others>>

\* R2Storage.GetHistoricalData(): ListSnapshots, then GetSnapshot of every key;
\* a key whose GetSnapshot returns an error is logged and left out
R2GetHistoricalData(order, listed) ==
    /\ \E kept \in {IF listed THEN ReadableKeys(rObjects, Reverse(order)) ELSE <<>>} :
          rRet' = IF ~listed THEN R2Ret("GetHistoricalData", "failed to list objects")
                  ELSE [R2Ret("GetHistoricalData", "") EXCEPT
                           !.fetched = Reverse(order),
                           !.keys = kept,
                           !.points = [i \in 1..Len(kept) |->
                                          DataPoint(GetSnapshotBody(rObjects[kept[i]]))]]
    /\ UNCHANGED <<rPrefix, rObjects, rNow, rWrites, rFirst, rRewritten, r2Others>>

\* the keys callers name: those in the bucket and those that once were
KnownKeys == DOMAIN rObjects \cup DOMAIN rFirst

NextR2 ==
    \/ R2Tick
    \/ \E stations \in WriteLists, uploaded \in BOOLEAN :
          R2WriteStations(stations, uploaded)
    \/ \E order \in ListingOrders(ListedKeys), listed \in BOOLEAN :
          R2ListSnapshots(order, listed)
    \/ \E key \in KnownKeys : R2GetSnapshot(key)
    \/ \E key \in KnownKeys : R2DeleteSnapshot(key)
    \/ \E key \in KnownKeys \cup {rPrefix \o "latest.tsv"}, data \in PutBodies :
          R2PutObject(key, data)

\* the historical read path: snapshots are written, one may be overwritten by a
\* corrupted body, and the series and the nearest snapshot are asked for
NextHistory ==
    \/ R2Tick
    \/ \E stations \in {<<>>, <<PlainStation>>} : R2WriteStations(stations, TRUE)
    \/ \E key \in DOMAIN rFirst \cup {SnapshotKey(rPrefix, Origin)} :
          R2PutObject(key, CorruptBody)
    \/ \E target \in 0..MaxSecond, order \in ListingOrders(ListedKeys), listed \in BOOLEAN :
          R2GetSnapshotByTimestamp(target, order, listed)
    \/ \E order \in ListingOrders(ListedKeys), listed \in BOOLEAN :
          R2GetHistoricalData(order, listed)

-----------------------------------------------------------------------------
(* Snapshot naming: the keys of two instants under one prefix *)

\* instants around the rollovers of the day, the month's digits and the year
NamingSeconds ==
    {Origin + k : k \in 0..MaxSecond}
        \cup {SecsOf(2026, 9, 30, 23, 59, 59), SecsOf(2026, 10, 1, 0, 0, 0),
              SecsOf(2026, 12, 31, 23, 59, 59), SecsOf(2027, 1, 1, 0, 0, 0)}

\* the instants as half-second ticks after 2026-01-01T00:00:00Z
NamingTicks == {2 * sec + half : sec \in NamingSeconds, half \in {0, 1}}

InitNaming ==
    /\ nPrefix \in {NewR2Storage(p) : p \in ConfiguredPrefixes}
    /\ nT1 \in NamingTicks
    /\ nT2 \in NamingTicks
    /\ nKey1 = ""
    /\ nKey2 = ""

\* the key of the first instant is built
NameFirst ==
    /\ nKey1 = ""
    /\ nKey1' = SnapshotKey(nPrefix, nT1 \div 2)
    /\ UNCHANGED <<nPrefix, nT1, nT2, nKey2, namingOthers>>

\* the key of the second instant is built
NameSecond ==
    /\ nKey2 = ""
    /\ nKey2' = SnapshotKey(nPrefix, nT2 \div 2)
    /\ UNCHANGED <<nPrefix, nT1, nT2, nKey1, namingOthers>>

NextNaming == NameFirst \/ NameSecond

-----------------------------------------------------------------------------
(* Claims on the codec (SpecCodec) *)

NoTab(name) == IndexOf(name, "\t") = 0

\* the decoder's result res gives back the rows WriteStations was handed
SameRows(res) ==
    /\ res.err = ""
    /\ Len(res.stations) = Len(cStations)
    /\ \A i \in 1..Len(cStations) :
          /\ res.stations[i].ID = cStations[i].ID
          /\ res.stations[i].Name = cStations[i].Name
          /\ res.stations[i].NbBikes = cStations[i].NbBikes
          /\ res.stations[i].NbStandardBikes = cStations[i].NbStandardBikes
          /\ res.stations[i].NbEBikes = cStations[i].NbEBikes
          /\ res.stations[i].NbEmptyDocks = cStations[i].NbEmptyDocks
          /\ res.stations[i].NbDocks = cStations[i].NbDocks

\* C1: for every station list whose names hold no tab, and every instant, each
\* decoder returns from the body WriteStations built exactly the stations
\* written, in order, with the same id, name and integer counts.
C1_RoundTripRows ==
    (cSource = "written" /\ \A i \in 1..Len(cStations) : NoTab(cStations[i].Name))
        => /\ cTSV # NotRun => SameRows(cTSV)
           /\ cR2 # NotRun => SameRows(cR2)

\* C2: for every station list, the empty one included, and every instant, each
\* decoder returns from the body WriteStations built a captured_at equal to the
\* instant truncated to seconds.
C2_RoundTripTimestamp ==
    cSource = "written"
        => /\ cTSV # NotRun => cTSV.timestamp = TimeAt(SecOfTick(cTick))
           /\ cR2 # NotRun => cR2.timestamp = TimeAt(SecOfTick(cTick))

\* a well-formed integer cell: an optional sign and then digits only
WellFormedInt(cell) ==
    LET digits == IF cell # "" /\ Head(cell) \in {"+", "-"} THEN Tail(cell) ELSE cell
    IN  digits # "" /\ AllDigits(digits)

\* the columns that hold integers: id and the five counts
IntColumns == {2, 6, 7, 8, 9, 10}

\* the integer a decoded station holds for a column
IntField(station, col) ==
    CASE col = 2 -> station.ID
      [] col = 6 -> station.NbBikes
      [] col = 7 -> station.NbStandardBikes
      [] col = 8 -> station.NbEBikes
      [] col = 9 -> station.NbEmptyDocks
      [] col = 10 -> station.NbDocks

\* the ten-or-more-column lines after the first line of the body, split at tabs
KeptRows == 
    LET lines == ScanLines(cBody)
    IN  IF lines = <<>> THEN <<>>
        ELSE LET later == Tail(lines)
                 tabs(l) == Cardinality({i \in 1..Len(l) : At(l, i) = "\t"})
                 kept == SelectSeq(later, LAMBDA l : tabs(l) >= 9)
             IN  [i \in 1..Len(kept) |-> Split(kept[i], "\t")]

\* C8: in every row of ten or more columns a number cell that is not a
\* well-formed number decodes as zero in the filesystem decoder and in the
\* object-store decoder, and both decoders return the same station list.
C8_LenientNumericDecode ==
    (cTSV # NotRun /\ cR2 # NotRun /\ cBody # "")
        => /\ cTSV.err = "" /\ cR2.err = ""
           /\ cTSV.stations = cR2.stations
           /\ \A i \in 1..Len(KeptRows) : \A col \in IntColumns :
                  ~WellFormedInt(KeptRows[i][col])
                      => /\ IntField(cTSV.stations[i], col) = 0
                         /\ IntField(cR2.stations[i], col) = 0

\* what C9 says of one decoder's result
RowHandling(res) ==
    /\ res.err = "empty file" <=> cBody = ""
    /\ cBody # "" =>
          LET kept == KeptRows
          IN  /\ res.err = ""
              /\ Len(res.stations) = Len(kept)
              /\ \A i \in 1..Len(kept) : res.stations[i].Name = kept[i][3]

CellTime(cell) ==
    LET secs == {SecOfTick(t) : t \in 0..MaxTick}
    IN  IF \E sec \in secs : cell = FormatRFC3339(sec)
        THEN TimeAt(CHOOSE sec \in secs : cell = FormatRFC3339(sec))
        ELSE ZeroTime

\* what C20 says of one decoder's result
TimestampSource(res) ==
    cBody # "" =>
        LET kept == KeptRows
        IN  /\ res.err = ""
            /\ Len(res.stations) = Len(kept)
            /\ kept # <<>> => res.timestamp = CellTime(kept[1][1])

-----------------------------------------------------------------------------
(* Claims on the local-filesystem backend (SpecTSV) *)

\* the names in the data directory that are snapshot files by their name
SnapshotNames ==
    {n \in DOMAIN tEntries :
        /\ ~tEntries[n].isDir
        /\ HasPrefix(n, "stations_")
        /\ HasSuffix(n, ".tsv")}

\* the lexicographically greatest of a non-empty set of names
Greatest(S) == CHOOSE n \in S : \A m \in S \ {n} : StrLess(m, n)

\* C4: ReadLatestStations fails with the no-snapshots error exactly when the
\* data directory is missing or holds no file named stations_*.tsv; otherwise
\* it decodes the file with the lexicographically greatest name, in whatever
\* order the directory listing returned the entries.
C4_ReadLatestLocal ==
    (tRet.op = "ReadLatestStations" /\ tDirState # "unreadable")
        => /\ tRet.err = ErrNoData <=> (tDirState = "missing" \/ SnapshotNames = {})
           /\ (tDirState = "ok" /\ SnapshotNames # {}) =>
                 LET n    == Greatest(SnapshotNames)
                     read == readTSVFile(tEntries[n].body)
                 IN  /\ tRet.path = Join(tDataDir, n)
                     /\ tRet.err = read.err
                     /\ tRet.stations = read.stations
                     /\ tRet.timestamp = read.timestamp

\* ReadLatestStations has decoded the newest of several snapshot files
C4_Witness ==
    /\ tRet.op = "ReadLatestStations"
    /\ tDirState = "ok"
    /\ Cardinality(SnapshotNames) >= 2
    /\ tRet.err = ""
    /\ tRet.path = Join(tDataDir, Greatest(SnapshotNames))

\* the seconds whose snapshot file is in the data directory with a whole body
WrittenSeconds ==
    {k \in 0..MaxSecond :
        /\ SnapshotFilename(Origin + k) \in SnapshotNames
        /\ tEntries[SnapshotFilename(Origin + k)].body # ""}

\* the elements of a sequence
Range(q) == {q[i] : i \in 1..Len(q)}

\* C6: for every instant and every data-directory string, parseFilenameTimestamp
\* of the path WriteStations built returns the instant without error, and
\* ListAvailableTimestamps holds the timestamp of every snapshot file written.
C6_NameParseInverse ==
    /\ (tRet.op = "WriteStations" /\ tRet.err = "")
          => parseFilenameTimestamp(tDataDir, tRet.path)
                = [ok |-> TRUE, t |-> TimeAt(Origin + tRet.tick)]
    /\ (tRet.op = "ListAvailableTimestamps" /\ tRet.err = "")
          => \A k \in WrittenSeconds : TimeAt(Origin + k) \in Range(tRet.timestamps)

\* C10: with the data directory missing, listTSVFiles and ListAvailableTimestamps
\* return an empty list and no error and ReadLatestStations reports no
\* snapshots; any other failure to read the directory is returned as an error.
C10_MissingDataDir ==
    /\ tDirState = "missing" =>
          /\ \A order \in ListingOrders(DOMAIN tEntries) :
                listTSVFiles(tDataDir, tDirState, tEntries, order)
                    = [err |-> "", files |-> <<>>]
          /\ tRet.op = "ListAvailableTimestamps" =>
                tRet.err = "" /\ tRet.timestamps = <<>>
          /\ tRet.op = "ReadLatestStations" => tRet.err = ErrNoData
    /\ tDirState = "unreadable" =>
          /\ tRet.op \in {"ListAvailableTimestamps", "ReadLatestStations"} =>
                tRet.err = ErrReadDir /\ tRet.timestamps = <<>> /\ tRet.stations = <<>>

\* ListAvailableTimestamps ran with the data directory missing
C10_Witness ==
    /\ tDirState = "missing"
    /\ tRet.op = "ListAvailableTimestamps"
    /\ tRet.err = ""

\* C25: whenever ReadLatestStations has succeeded, ListAvailableTimestamps on
\* the same directory is non-empty and in descending order, and its first
\* element is the timestamp in the name of the file ReadLatestStations decoded.
C25_LatestAgreesWithList ==
    (tRet.op = "ReadLatestStations" /\ tRet.err = "") =>
        \A order \in ListingOrders(DOMAIN tEntries) :
            LET listed == listTSVFiles(tDataDir, tDirState, tEntries, order)
                ts     == ParsedTimestamps(tDataDir, listed.files)
                name   == parseFilenameTimestamp(tDataDir, tRet.path)
            IN  /\ ts # <<>>
                /\ \A i \in 1..(Len(ts) - 1) : ts[i + 1].sec <= ts[i].sec
                /\ name.ok
                /\ ts[1] = name.t

\* C22: a WriteStations that returns an error leaves the names a listing
\* returns and the body of every snapshot file as they were before the call.
C22_FailedWriteNoEffect ==
    [][(tWrites' = tWrites + 1 /\ tRet'.err # "")
          => /\ SnapshotNames' = SnapshotNames
             /\ \A n \in SnapshotNames : tEntries'[n].body = tEntries[n].body]_vars

\* C21: with a WriteStations and ReadLatestStations calls interleaved on one
\* data directory, a read returns the no-snapshots error or what a completely
\* written snapshot decodes to: no empty-file error, no strict prefix of the
\* list being written, no zero captured_at.
C21_NoTornRead ==
    tRet.op = "ReadLatestStations" =>
        \/ tRet.err = ErrNoData
        \/ /\ tRet.err = ""
           /\ \E k \in 0..MaxSecond, stations \in TornLists :
                  /\ tRet.path = Join(tDataDir, SnapshotFilename(Origin + k))
                  /\ LET whole == readTSVFile(SnapshotBody(stations, Origin + k))
                     IN  /\ tRet.stations = whole.stations
                         /\ tRet.timestamp = whole.timestamp

-----------------------------------------------------------------------------
(* Claims on the object-store backend (SpecR2) *)

\* what GetSnapshot makes of a body: the station list and captured_at
SnapshotOf(body) ==
    LET read == GetSnapshotBody(body)
    IN  [err |-> read.err, stations |-> read.stations, timestamp |-> read.timestamp]

\* C3: after any sequence of WriteStations (two in one second included),
\* DeleteSnapshot and PutObject calls, every key WriteStations once wrote is
\* still in the bucket and still decodes to the station list and captured_at it
\* was first written with, and no key has been written twice.
C3_SnapshotImmutability ==
    /\ \A key \in DOMAIN rFirst :
          /\ key \in DOMAIN rObjects
          /\ SnapshotOf(rObjects[key]) = SnapshotOf(rFirst[key])
    /\ rRewritten = {}

\* C5: for every set of objects under the prefix and every order the store
\* returns them in, ListSnapshots returns all of those keys in descending
\* string order.
C5_ListKeysSorted ==
    (rRet.op = "ListSnapshots" /\ rRet.err = "")
        => /\ Range(rRet.keys) = ListedKeys
           /\ Len(rRet.keys) = Cardinality(ListedKeys)
           /\ \A i \in 1..Len(rRet.keys) : \A j \in 1..Len(rRet.keys) :
                  i < j => StrLess(rRet.keys[j], rRet.keys[i])

\* the listed keys that name an instant
ParseableKeys == {k \in ListedKeys : parseKeyTimestamp(rPrefix, k).ok}

KeySec(k) == parseKeyTimestamp(rPrefix, k).t.sec

\* C14: for a bucket whose snapshot keys all parse and any target instant,
\* GetSnapshotByTimestamp returns the stations of the key whose instant is
\* nearest to the target, the more recent one of two keys equally near, and
\* fetches the body of that key only.
C14_NearestTimestamp ==
    (/\ rRet.op = "GetSnapshotByTimestamp"
     /\ rRet.err \notin {"failed to list objects", "no snapshots available"}
     /\ ListedKeys # {} /\ ParseableKeys = ListedKeys)
        => /\ rRet.key \in ParseableKeys
           /\ \A k \in ParseableKeys \ {rRet.key} :
                  \/ AbsDiff(KeySec(rRet.key), rRet.target) < AbsDiff(KeySec(k), rRet.target)
                  \/ /\ AbsDiff(KeySec(rRet.key), rRet.target) = AbsDiff(KeySec(k), rRet.target)
                     /\ KeySec(rRet.key) > KeySec(k)
           /\ rRet.stations = GetSnapshotBody(rObjects[rRet.key]).stations
           /\ rRet.fetched = <<rRet.key>>

\* the listed keys whose body is corrupted
CorruptKeys == {k \in ListedKeys : rObjects[k] = CorruptBody}

\* C15: for K stored snapshots of which exactly one has a corrupted, non-empty
\* body, GetHistoricalData returns K - 1 data points, none of them for the
\* corrupted snapshot, and no error.
C15_SeriesSkipsCorrupt ==
    (/\ rRet.op = "GetHistoricalData"
     /\ rRet.err # "failed to list objects"
     /\ Cardinality(CorruptKeys) = 1
     /\ \A k \in ListedKeys : rObjects[k] # "")
        => /\ rRet.err = ""
           /\ Len(rRet.points) = Cardinality(ListedKeys) - 1
           /\ \A i \in 1..Len(rRet.keys) : rRet.keys[i] \notin CorruptKeys

-----------------------------------------------------------------------------
(* Claims on the snapshot naming (SpecNaming) *)

\* C7: for two instants t1 < t2 in distinct seconds the key built for t1 is
\* strictly smaller, byte by byte, than the key built for t2 under the same
\* prefix.
C7_KeyOrdering ==
    (nKey1 # "" /\ nKey2 # "" /\ nT1 \div 2 < nT2 \div 2)
        => StrLess(nKey1, nKey2) /\ ~StrLess(nKey2, nKey1)

\* both keys are built for instants on either side of midnight of a day whose
\* number gains a digit
C7_Witness ==
    /\ nKey1 # "" /\ nKey2 # ""
    /\ nT1 \div 2 = Origin + 1
    /\ nT2 \div 2 = Origin + 2
    /\ StrLess(nKey1, nKey2)

-----------------------------------------------------------------------------
(* Server start-up: the flags, the environment and the backend main builds *)

\* strconv.ParseBool, which the flag package applies to -r2=<value>; a value it
\* rejects makes flag.Parse exit, and is not an input of the model
ParseBool(s) == s \in {"1", "t", "T", "TRUE", "true", "True"}

\* the defaults main declares for -port, -data-dir and -r2
DefaultPort == 8080

DefaultFlags == [port |-> DefaultPort, dataDir |-> "data", useR2 |-> TRUE]

\* flag.Parse(): the arguments, each -name or -name=value, are applied left
\* to right over the defaults; a boolean flag without a value is set to true
RECURSIVE ApplyFlags(_, _)
ApplyFlags(args, flags) ==
    IF args = <<>> THEN flags
    ELSE LET body  == TrimPrefix(TrimPrefix(Head(args), "-"), "-")
             eq    == IndexOf(body, "=")
             name  == IF eq = 0 THEN body ELSE SubSeq(body, 1, eq - 1)
             value == SubSeq(body, eq + 1, Len(body))
             set   == IF name = "r2"
                          THEN [flags EXCEPT !.useR2 =
                                   IF eq # 0 THEN ParseBool(value) ELSE TRUE]
                      ELSE IF name = "port"
                          THEN [flags EXCEPT !.port = Atoi(value).v]
                      ELSE IF name = "data-dir"
                          THEN [flags EXCEPT !.dataDir = value]
                      ELSE flags
         IN  ApplyFlags(Tail(args), set)

\* fmt.Sscanf(s, "%d", port): the port is stored only when a number was scanned
SscanfPort(s, port) ==
    LET t    == SkipSpace(s)
        sg   == IF t # "" /\ Head(t) \in {"+", "-"} THEN Head(t) ELSE ""
        rest == IF sg = "" THEN t ELSE Tail(t)
        run  == TakeWhile(rest, ScanDigits)
    IN  IF run = "" \/ ~AllDigits(run) THEN port ELSE SscanfD(s)

\* the variables LoadR2Config requires
RequiredEnv == {"S3_ACCESS_KEY_ID", "S3_SECRET_ACCESS_KEY", "S3_ENDPOINT", "S3_BUCKET_NAME"}

\* config.LoadR2Config: the error it returns, "" for none
LoadR2Config(env) ==
    IF \E name \in RequiredEnv : env[name] = ""
    THEN "missing required environment variables" ELSE ""

NoEnv == [name \in RequiredEnv \cup {"USE_R2", "PORT"} |-> ""]

\* the command lines and the environments the server is started with: -r2 in
\* each spelling or left out, USE_R2 and PORT set or unset, the R2 credentials
\* complete or without the bucket name
InitServer ==
    /\ \E a \in {<<>>, <<"-r2">>, <<"-r2=false">>, <<"-r2=true">>},
          p \in {<<>>, <<"-port=9090">>},
          d \in {<<>>, <<"-data-dir=archive">>} : sArgs = a \o p \o d
    /\ \E u \in {"", "true", "false"}, p \in {"", "3000", "abc"}, bucket \in {"", "x"} :
           sEnv = [name \in DOMAIN NoEnv |->
                      IF name = "USE_R2" THEN u
                      ELSE IF name = "PORT" THEN p
                      ELSE IF name = "S3_BUCKET_NAME" THEN bucket ELSE "x"]
    /\ sPc = "main"
    /\ sUseR2 = FALSE /\ sPort = 0 /\ sDataDir = "" /\ sStore = ""

\* main, the flag declarations and flag.Parse()
ParseFlags ==
    /\ sPc = "main"
    /\ LET flags == ApplyFlags(sArgs, DefaultFlags)
       IN  /\ sUseR2' = flags.useR2
           /\ sPort' = flags.port
           /\ sDataDir' = flags.dataDir
    /\ sPc' = "parsed"
    /\ UNCHANGED <<sArgs, sEnv, sStore, serverOthers>>

\* main, the USE_R2 and PORT overrides
ApplyEnv ==
    /\ sPc = "parsed"
    /\ sUseR2' = IF sEnv["USE_R2"] # "" THEN TRUE ELSE sUseR2
    /\ sPort' = IF sEnv["PORT"] # "" THEN SscanfPort(sEnv["PORT"], sPort) ELSE sPort
    /\ sPc' = "env"
    /\ UNCHANGED <<sArgs, sEnv, sDataDir, sStore, serverOthers>>

\* main, the choice of the backend; a failing LoadR2Config ends the process
SelectStore ==
    /\ sPc = "env"
    /\ IF sUseR2
       THEN IF LoadR2Config(sEnv) # ""
            THEN sPc' = "fatal" /\ sStore' = sStore
            ELSE sPc' = "serving" /\ sStore' = "r2"
       ELSE sPc' = "serving" /\ sStore' = "tsv"
    /\ UNCHANGED <<sArgs, sEnv, sUseR2, sPort, sDataDir, serverOthers>>

NextServer == ParseFlags \/ ApplyEnv \/ SelectStore

-----------------------------------------------------------------------------
(* Claims on the server start-up (SpecServer) *)

\* the -r2 flag is given on the command line
R2FlagGiven == \E i \in 1..Len(sArgs) : HasPrefix(sArgs[i], "-r2")

\* C19: started with no -r2 flag and USE_R2 unset the server builds the local
\* TSV backend, and it builds the R2 backend only when R2 was asked for, by
\* the -r2 flag or by USE_R2=true.
C19_BackendSelection ==
    sPc \in {"serving", "fatal"} =>
        /\ (~R2FlagGiven /\ sEnv["USE_R2"] = "") => sStore = "tsv"
        /\ sStore = "r2" =>
               \/ \E i \in 1..Len(sArgs) : sArgs[i] \in {"-r2", "-r2=true"}
               \/ sEnv["USE_R2"] = "true"

-----------------------------------------------------------------------------
(* The collectors: cmd/collector-r2 (object store) and cmd/collector (local) *)

\* ticks the ticker sends in one run
MaxTimerTicks == 3

\* how the substrate answers a storage call: with success, with an error, or
\* never
Responses == {"ok", "err", "never"}

\* the context a collector hands to its storage calls: cmd/collector-r2 passes
\* context.Background(), which has no deadline and is never cancelled;
\* TSVStorage.WriteStations takes no context at all
CollectorContext(mode) == IF mode = "r2" THEN "background" ELSE "none"

\* a context with a deadline or a cancellation signal
Bounded(ctx) == ctx \in {"deadline", "cancel"}

InitCollector ==
    /\ kMode \in {"r2", "tsv"}
    /\ kOneShot \in BOOLEAN
    /\ kPc = "start" /\ kInitial = TRUE
    /\ kCtx = "" /\ kResp = ""
    /\ kTick = FALSE /\ kSig = FALSE /\ kFired = 0 /\ kWrites = 0

\* main up to the initial fetchAndStore; cmd/collector-r2 verifies the bucket
\* first, and a call the substrate never answers does not return
CollectorStart(resp) ==
    /\ kPc = "start"
    /\ IF kMode = "r2"
       THEN /\ resp # "never"
            /\ kPc' = IF resp = "ok" THEN "fetch" ELSE "fatal"
       ELSE kPc' = "fetch"
    /\ UNCHANGED <<kMode, kOneShot, kInitial, kCtx, kResp, kTick, kSig, kFired, kWrites,
                   collectorOthers>>

\* a main that logs every failure and goes on
AfterFetchAndStoreLogged(failed) ==
    kPc' = IF kInitial /\ kOneShot /\ ~failed THEN "exited" ELSE "select"

\* what main does when a fetchAndStore has returned
AfterFetchAndStore(failed) ==
    IF kInitial
    THEN kPc' = IF failed THEN "fatal" ELSE IF kOneShot THEN "exited" ELSE "select"
    ELSE kPc' = "select"

\* fetchAndStore: client.FetchStations() returns (the client has its own
\* timeout); on success store.WriteStations is called
FetchStationsReturns(ok, resp) ==
    /\ kPc = "fetch"
    /\ IF ok
       THEN /\ kPc' = "store"
            /\ kCtx' = CollectorContext(kMode)
            /\ kResp' = resp
            /\ UNCHANGED kInitial
       ELSE /\ AfterFetchAndStore(TRUE)
            /\ kInitial' = FALSE
            /\ UNCHANGED <<kCtx, kResp>>
    /\ UNCHANGED <<kMode, kOneShot, kTick, kSig, kFired, kWrites, collectorOthers>>

\* fetchAndStore: store.WriteStations returns; it returns from a substrate that
\* never answers only when its context ends the call
WriteStationsReturns ==
    /\ kPc = "store"
    /\ kResp # "never" \/ Bounded(kCtx)
    /\ AfterFetchAndStore(kResp # "ok")
    /\ kWrites' = IF kResp = "ok" THEN kWrites + 1 ELSE kWrites
    /\ kInitial' = FALSE
    /\ kCtx' = "" /\ kResp' = ""
    /\ UNCHANGED <<kMode, kOneShot, kTick, kSig, kFired, collectorOthers>>

\* signal.Notify and time.NewTicker are set up once the initial fetchAndStore
\* has succeeded in continuous mode
InLoop == ~kInitial /\ kPc \in {"select", "fetch", "store"}

\* the ticker sends a tick; it drops the tick when one is waiting already
TickerFires ==
    /\ InLoop
    /\ kFired < MaxTimerTicks
    /\ kFired' = kFired + 1
    /\ kTick' = TRUE
    /\ UNCHANGED <<kMode, kOneShot, kPc, kInitial, kCtx, kResp, kSig, kWrites,
                   collectorOthers>>

\* SIGINT or SIGTERM arrives: delivered to sigChan once signal.Notify is set up,
\* and ending the process by the default action before
SignalDelivered ==
    /\ kPc \in {"start", "select", "fetch", "store"}
    /\ IF InLoop THEN kSig' = TRUE /\ UNCHANGED kPc
                 ELSE kPc' = "killed" /\ UNCHANGED kSig
    /\ UNCHANGED <<kMode, kOneShot, kInitial, kCtx, kResp, kTick, kFired, kWrites,
                   collectorOthers>>

\* the loop's select takes the tick: any case that is ready may be taken
SelectTick ==
    /\ kPc = "select"
    /\ kTick
    /\ kTick' = FALSE
    /\ kPc' = "fetch"
    /\ UNCHANGED <<kMode, kOneShot, kInitial, kCtx, kResp, kSig, kFired, kWrites,
                   collectorOthers>>

\* the loop's select takes the signal, and main returns
SelectSignal ==
    /\ kPc = "select"
    /\ kSig
    /\ kSig' = FALSE
    /\ kPc' = "exited"
    /\ UNCHANGED <<kMode, kOneShot, kInitial, kCtx, kResp, kTick, kFired, kWrites,
                   collectorOthers>>

NextCollector ==
    \/ \E resp \in Responses : CollectorStart(resp)
    \/ \E ok \in BOOLEAN, resp \in Responses : FetchStationsReturns(ok, resp)
    \/ WriteStationsReturns
    \/ TickerFires
    \/ SignalDelivered
    \/ SelectTick
    \/ SelectSignal

-----------------------------------------------------------------------------
(* Claims on the collectors (SpecCollector) *)

\* C16: every storage call a collector makes carries a deadline or a
\* cancellation signal from its caller, so that a call the substrate never
\* answers still returns.
C16_NoIndefiniteBlocking ==
    kPc = "store" => Bounded(kCtx)

\* C17: in continuous mode, once a signal has been delivered to the signal
\* channel the loop starts no further fetch-and-store, a pending tick
\* notwithstanding.
C17_CollectorShutdown ==
    [][(kPc = "select" /\ kSig) => kPc' # "fetch"]_vars

\* a step in which fetchAndStore returns an error: the fetch failed, or the
\* storage call did
FetchAndStoreFails ==
    \/ kPc = "fetch" /\ kPc' \notin {"fetch", "store", "killed"}
    \/ kPc = "store" /\ kPc' \notin {"store", "killed"} /\ kWrites' = kWrites

\* C27: a failed upstream fetch is followed by no storage write; a failure of the
\* initial fetch-and-store ends the collector before the loop; a failure on a
\* later tick leaves it in the loop, where a waiting tick starts the next
\* fetch-and-store unless a shutdown signal ends the run.
C27_FailureHandling ==
    /\ [][/\ kWrites' # kWrites => kPc = "store"
          /\ (kPc = "fetch" /\ kPc' # "store") => kWrites' = kWrites
          /\ (FetchAndStoreFails /\ kInitial) => kPc' = "fatal"
          /\ (FetchAndStoreFails /\ ~kInitial) => kPc' = "select"
          /\ (kPc = "select" /\ kPc' # "select")
                => \/ kTick /\ kPc' = "fetch"
                   \/ kSig /\ kPc' = "exited"]_vars
    /\ (InLoop /\ kPc = "select" /\ kTick) ~> (kPc \in {"fetch", "exited"})

\* a tick's fetch-and-store has failed after the initial one succeeded, and the
\* collector waits in its loop
C27_Witness ==
    /\ ~kInitial /\ kPc = "select"
    /\ kFired = 1 /\ ~kTick /\ kWrites = 1

-----------------------------------------------------------------------------
(* The web handler: /api/history and /api/history/snapshot with their caches *)

\* requests served at the same time
MaxInFlight == 2

\* requests started in one run
MaxRequests == 2

\* steps of the clock in one run, each of half the TTL
MaxClockSteps == 2

\* the TTL of the aggregate cache, in minutes
historyCacheTTL == 10

Slots == 1..MaxInFlight

\* a []HistoricalDataPoint: the nil slice, the empty slice, and a series of one point
NilSeries == [nil |-> TRUE, points |-> <<>>]

EmptySeries == [nil |-> FALSE, points |-> <<>>]

\* the instants the collector stores a snapshot for while the server runs
SnapshotInstants == {Origin, Origin + 1}

\* the series of a snapshot set: one point per snapshot in the order of the
\* listing, newest first, a point being written as the second of its snapshot
SeriesOf(snaps) ==
    [nil    |-> FALSE,
     points |-> [i \in 1..Cardinality(snaps) |->
                    CHOOSE sec \in snaps : Cardinality({t \in snaps : t > sec}) = i - 1]]

\* what GetHistoricalData may return: an error, or the series of the snapshots
\* in the store; for a store without snapshots the series is empty, as the nil
\* slice or as an empty one
HistoryResults(snaps) ==
    {[ok |-> FALSE, data |-> NilSeries]}
        \cup {[ok |-> TRUE, data |-> data] :
                 data \in IF snaps = {} THEN {NilSeries, EmptySeries} ELSE {SeriesOf(snaps)}}

\* the station list of the snapshot of a second: the lists differ from one
\* snapshot to the next
StationsAt(sec) == <<[PlainStation EXCEPT !.NbBikes = 3 + (sec - Origin)]>>

\* the snapshots nearest to an instant; of two at the same distance the more
\* recent one is taken
NearestSnapshots(snaps, target) ==
    {s \in snaps :
        \A t \in snaps :
            \/ AbsDiff(s, target) < AbsDiff(t, target)
            \/ AbsDiff(s, target) = AbsDiff(t, target) /\ t <= s}

\* what GetSnapshotByTimestamp may return for an instant: an error, as it is
\* for a store without snapshots, or the stations of the snapshot nearest to
\* the instant
SnapshotResults(snaps, target) ==
    {[ok |-> FALSE, data |-> <<>>]}
        \cup {[ok |-> TRUE, data |-> StationsAt(sec)] :
                 sec \in NearestSnapshots(snaps, target)}

\* the timestamp parameters of the requests: none, one that is no RFC 3339, one
\* instant written with two offsets, and another instant
TimestampParams ==
    {"", "yesterday", "2026-02-09T23:59:58Z", "2026-02-10T00:59:58+01:00",
     "2026-02-09T23:59:59Z"}

\* a sync.RWMutex: the requests holding it for reading, and the one holding it
\* for writing (0: none)
Unlocked == [readers |-> {}, writer |-> 0]

CanRLock(mu) == mu.writer = 0

CanLock(mu) == mu.writer = 0 /\ mu.readers = {}

RLock(mu, r) == [mu EXCEPT !.readers = @ \cup {r}]

\* an RUnlock that is forgotten on the way out
RUnlockMissing(mu, r) == mu

RUnlock(mu, r) == [mu EXCEPT !.readers = @ \ {r}]

Lock(mu, r) == [mu EXCEPT !.writer = r]

\* an Unlock that is forgotten on the way out
UnlockMissing(mu, r) == mu

Unlock(mu, r) == [mu EXCEPT !.writer = 0]

\* the cache key is the parameter as it was sent
CacheKeyAsSent(param, sec) == param

\* targetTime.UTC().Format(time.RFC3339)
CacheKey(param, sec) == FormatRFC3339(sec)

\* a request: its handler, where the handler is, its timestamp parameter, the
\* instant that denotes and the cache key, the series or the station list it holds, the status of its response once that is
\* decided, whether it called the backend, and what an earlier completed
\* request leaves it due from the cache
NotDue == [on |-> FALSE, data |-> NilSeries]

NoRequest ==
    [kind |-> "", pc |-> "", param |-> "", target |-> 0, key |-> "",
     data |-> NilSeries, stations |-> <<>>, status |-> 0, called |-> FALSE,
     due |-> NotDue]

NoHistory == [ok |-> FALSE, at |-> 0, data |-> NilSeries]

NoResponse == [status |-> 0, storeErr |-> "", live |-> FALSE, timestamp |-> ZeroTime]

InitWeb ==
    /\ wStore \in {"r2", "tsv"}
    /\ wNow = 0 /\ wStarted = 0
    /\ wReq = [r \in Slots |-> NoRequest]
    /\ historyCache = NilSeries /\ historyCacheTime = 0 /\ historyCacheMu = Unlocked
    /\ snapshotCache = <<>> /\ snapshotCacheMu = Unlocked
    /\ wLastHistory = NoHistory /\ wServed = {} /\ wStations = NoResponse
    /\ wSnaps \in {{}, {Origin}}

\* the handler over an object store that is empty when the server starts
InitWebStore ==
    /\ wStore = "r2"
    /\ wNow = 0 /\ wStarted = 0
    /\ wReq = [r \in Slots |-> NoRequest]
    /\ historyCache = NilSeries /\ historyCacheTime = 0 /\ historyCacheMu = Unlocked
    /\ snapshotCache = <<>> /\ snapshotCacheMu = Unlocked
    /\ wLastHistory = NoHistory /\ wServed = {} /\ wStations = NoResponse
    /\ wSnaps = {}

\* the handler's variables a step leaves alone besides those it names
WebFrame == <<wStore, wStations, wSnaps, webOthers>>

\* time passes
WebTick ==
    /\ wNow < MaxClockSteps * (historyCacheTTL \div 2)
    /\ wNow' = wNow + historyCacheTTL \div 2
    /\ UNCHANGED <<wStarted, wReq, historyCache, historyCacheTime, historyCacheMu,
                   snapshotCache, snapshotCacheMu, wLastHistory, wServed, WebFrame>>

\* a request that is answered with an error status before it looks at a cache
Answer(kind, status) ==
    [NoRequest EXCEPT !.kind = kind, !.pc = "respond", !.status = status]

\* the slot a new request is given: the first that serves no request
FreeSlot(r) ==
    /\ wReq[r] = NoRequest
    /\ \A o \in Slots : o < r => wReq[o] # NoRequest

\* the mutex a request of a handler works on
IsHistory(r) == wReq[r].kind = "history"

\* handleHistory up to the cache check: a store that is no
\* HistoricalDataStore is answered 501 (http.Error)
StartHistory(r) ==
    /\ FreeSlot(r)
    /\ wStarted < MaxRequests
    /\ wStarted' = wStarted + 1
    /\ wReq' = IF wStore # "r2"
               THEN [wReq EXCEPT ![r] = Answer("history", 501)]
               ELSE [wReq EXCEPT ![r] =
                        [NoRequest EXCEPT
                            !.kind = "history", !.pc = "check",
                            !.due = IF /\ wLastHistory.ok
                                       /\ wNow < wLastHistory.at + historyCacheTTL
                                       /\ \A o \in Slots : wReq[o] = NoRequest
                                    THEN [on |-> TRUE, data |-> wLastHistory.data]
                                    ELSE NotDue]]
    /\ UNCHANGED <<wNow, historyCache, historyCacheTime, historyCacheMu, snapshotCache,
                   snapshotCacheMu, wLastHistory, wServed, WebFrame>>

\* handleHistorySnapshot up to the cache check: a missing or malformed
\* timestamp parameter is answered 400
StartSnapshot(r, param) ==
    /\ FreeSlot(r)
    /\ wStarted < MaxRequests
    /\ wStarted' = wStarted + 1
    /\ \E targetTime \in {ParseRFC3339(param)} :
          IF param = "" \/ ~targetTime.ok
          THEN wReq' = [wReq EXCEPT ![r] =
                           [Answer("snapshot", 400) EXCEPT !.param = param]]
          ELSE \E cacheKey \in {CacheKey(param, targetTime.t.sec)} :
                  wReq' = [wReq EXCEPT ![r] =
                              [NoRequest EXCEPT
                                  !.kind = "snapshot", !.pc = "check",
                                  !.param = param, !.target = targetTime.t.sec,
                                  !.key = cacheKey,
                                  !.due = [on |-> FormatRFC3339(targetTime.t.sec) \in wServed,
                                           data |-> NilSeries]]]
    /\ UNCHANGED <<wNow, historyCache, historyCacheTime, historyCacheMu, snapshotCache,
                   snapshotCacheMu, wLastHistory, wServed, WebFrame>>

\* handleHistory: RLock(), which returns once no writer holds the mutex, the
\* cache check and RUnlock(); on a miss GetHistoricalData is called next
CheckHistory(r) ==
    /\ wReq[r].pc = "check" /\ IsHistory(r)
    /\ CanRLock(historyCacheMu)
    /\ historyCacheMu' = RUnlock(RLock(historyCacheMu, r), r)
    /\ wReq' = IF ~historyCache.nil /\ wNow - historyCacheTime < historyCacheTTL
               THEN [wReq EXCEPT ![r].pc = "respond", ![r].status = 200,
                                 ![r].data = historyCache]
               ELSE [wReq EXCEPT ![r].pc = "call", ![r].called = TRUE]
    /\ UNCHANGED <<wNow, wStarted, historyCache, historyCacheTime, snapshotCache,
                   snapshotCacheMu, wLastHistory, wServed, WebFrame>>

\* handleHistorySnapshot: RLock(), the cache lookup and RUnlock(); on a miss a
\* store that is no R2DataStore is answered 501, and GetSnapshotByTimestamp is
\* called next
CheckSnapshot(r) ==
    /\ wReq[r].pc = "check" /\ ~IsHistory(r)
    /\ CanRLock(snapshotCacheMu)
    /\ snapshotCacheMu' = RUnlock(RLock(snapshotCacheMu, r), r)
    /\ wReq' = IF wReq[r].key \in DOMAIN snapshotCache
               THEN [wReq EXCEPT ![r].pc = "respond", ![r].status = 200,
                                 ![r].stations = snapshotCache[wReq[r].key]]
               ELSE IF wStore # "r2"
               THEN [wReq EXCEPT ![r].pc = "respond", ![r].status = 501]
               ELSE [wReq EXCEPT ![r].pc = "call", ![r].called = TRUE]
    /\ UNCHANGED <<wNow, wStarted, historyCache, historyCacheTime, historyCacheMu,
                   snapshotCache, wLastHistory, wServed, WebFrame>>

\* a backend call whose error is logged and whose handler goes on to the cache
BackendReturnsLogged(r, ok, data) ==
    /\ wReq[r].pc = "call"
    /\ wReq' = IF IsHistory(r)
               THEN [wReq EXCEPT ![r].pc = "lock", ![r].status = IF ok THEN 200 ELSE 500,
                                 ![r].data = data]
               ELSE [wReq EXCEPT ![r].pc = "lock", ![r].status = IF ok THEN 200 ELSE 500,
                                 ![r].stations = data]
    /\ UNCHANGED <<wNow, wStarted, historyCache, historyCacheTime, historyCacheMu,
                   snapshotCache, snapshotCacheMu, wLastHistory, wServed, WebFrame>>

\* the backend call of either handler returns: an error is answered 500, a
\* result is kept for the cache
BackendReturns(r, ok, data) ==
    /\ wReq[r].pc = "call"
    /\ wReq' = IF ~ok
               THEN [wReq EXCEPT ![r].pc = "respond", ![r].status = 500]
               ELSE IF IsHistory(r)
               THEN [wReq EXCEPT ![r].pc = "lock", ![r].status = 200, ![r].data = data]
               ELSE [wReq EXCEPT ![r].pc = "lock", ![r].status = 200, ![r].stations = data]
    /\ UNCHANGED <<wNow, wStarted, historyCache, historyCacheTime, historyCacheMu,
                   snapshotCache, snapshotCacheMu, wLastHistory, wServed, WebFrame>>

\* the Lock() of either handler returns once nobody holds the mutex
AcquireLock(r) ==
    /\ wReq[r].pc = "lock"
    /\ IF IsHistory(r)
       THEN /\ CanLock(historyCacheMu)
            /\ historyCacheMu' = Lock(historyCacheMu, r)
            /\ UNCHANGED snapshotCacheMu
       ELSE /\ CanLock(snapshotCacheMu)
            /\ snapshotCacheMu' = Lock(snapshotCacheMu, r)
            /\ UNCHANGED historyCacheMu
    /\ wReq' = [wReq EXCEPT ![r].pc = "install"]
    /\ UNCHANGED <<wNow, wStarted, historyCache, historyCacheTime, snapshotCache,
                   wLastHistory, wServed, WebFrame>>

\* handleHistory: the cache update and Unlock()
InstallHistory(r) ==
    /\ wReq[r].pc = "install" /\ IsHistory(r)
    /\ historyCache' = wReq[r].data
    /\ historyCacheTime' = wNow
    /\ historyCacheMu' = Unlock(historyCacheMu, r)
    /\ wReq' = [wReq EXCEPT ![r].pc = "respond"]
    /\ UNCHANGED <<wNow, wStarted, snapshotCache, snapshotCacheMu, wLastHistory, wServed,
                   WebFrame>>

\* handleHistorySnapshot: the cache update and Unlock()
InstallSnapshot(r) ==
    /\ wReq[r].pc = "install" /\ ~IsHistory(r)
    /\ snapshotCache' = [k \in DOMAIN snapshotCache \cup {wReq[r].key} |->
                            IF k = wReq[r].key THEN wReq[r].stations ELSE snapshotCache[k]]
    /\ snapshotCacheMu' = Unlock(snapshotCacheMu, r)
    /\ wReq' = [wReq EXCEPT ![r].pc = "respond"]
    /\ UNCHANGED <<wNow, wStarted, historyCache, historyCacheTime, historyCacheMu,
                   wLastHistory, wServed, WebFrame>>

\* writeHistoryResponse, writeSnapshotResponse or http.Error: the response is
\* written and the handler returns
Respond(r) ==
    /\ wReq[r].pc = "respond"
    /\ IF wReq[r].status # 200 THEN UNCHANGED <<wLastHistory, wServed>>
       ELSE IF IsHistory(r)
       THEN /\ wLastHistory' = [ok |-> TRUE, at |-> wNow, data |-> wReq[r].data]
            /\ UNCHANGED wServed
       ELSE /\ wServed' = wServed \cup {wReq[r].key}
            /\ UNCHANGED wLastHistory
    /\ wReq' = [wReq EXCEPT ![r] = NoRequest]
    /\ UNCHANGED <<wNow, wStarted, historyCache, historyCacheTime, historyCacheMu,
                   snapshotCache, snapshotCacheMu, WebFrame>>

\* the collector stores the snapshot of a second in the handler's object
\* store; its snapshots are named by the time of the write, so a new one is
\* later than those in the store
SnapshotWritten(sec) ==
    /\ wStore = "r2"
    /\ \A t \in wSnaps : t < sec
    /\ wSnaps' = wSnaps \cup {sec}
    /\ UNCHANGED <<wNow, wStarted, wReq, historyCache, historyCacheTime, historyCacheMu,
                   snapshotCache, snapshotCacheMu, wLastHistory, wServed, wStore,
                   wStations, webOthers>>

NextWeb ==
    \/ WebTick
    \/ \E r \in Slots : StartHistory(r)
    \/ \E r \in Slots, param \in TimestampParams : StartSnapshot(r, param)
    \/ \E r \in Slots : CheckHistory(r)
    \/ \E r \in Slots : CheckSnapshot(r)
    \/ \E r \in Slots :
          /\ IsHistory(r)
          /\ \E res \in HistoryResults(wSnaps) : BackendReturns(r, res.ok, res.data)
    \/ \E r \in Slots :
          /\ ~IsHistory(r) /\ wReq[r].pc = "call"
          /\ \E res \in SnapshotResults(wSnaps, wReq[r].target) :
                 BackendReturns(r, res.ok, res.data)
    \/ \E r \in Slots : AcquireLock(r)
    \/ \E r \in Slots : InstallHistory(r)
    \/ \E r \in Slots : InstallSnapshot(r)
    \/ \E r \in Slots : Respond(r)

\* a step of the handler that serves the request of a slot: a goroutine that
\* can run is run, and the backend call of a request returns
HandlerStep(r) ==
    \/ CheckHistory(r)
    \/ CheckSnapshot(r)
    \/ IsHistory(r) /\ \E res \in HistoryResults(wSnaps) : BackendReturns(r, res.ok, res.data)
    \/ /\ ~IsHistory(r) /\ wReq[r].pc = "call"
       /\ \E res \in SnapshotResults(wSnaps, wReq[r].target) : BackendReturns(r, res.ok, res.data)
    \/ AcquireLock(r)
    \/ InstallHistory(r)
    \/ InstallSnapshot(r)
    \/ Respond(r)

\* the handler with a collector writing to its store
NextWebStore ==
    \/ NextWeb
    \/ \E sec \in SnapshotInstants : SnapshotWritten(sec)

-----------------------------------------------------------------------------
(* GET /api/stations over the local backend (SpecStations) *)

InitStations ==
    /\ wStore = "tsv" /\ wNow = 0 /\ wStarted = 0 /\ wReq = [r \in Slots |-> NoRequest]
    /\ historyCache = NilSeries /\ historyCacheTime = 0 /\ historyCacheMu = Unlocked
    /\ snapshotCache = <<>> /\ snapshotCacheMu = Unlocked
    /\ wLastHistory = NoHistory /\ wServed = {} /\ wStations = NoResponse
    /\ wSnaps = {}

\* Handler.handleStations: the store is read; on any error of the store the live
\* feed is fetched (live: tflClient.FetchStations succeeds), and only when that
\* fails too is the answer 500. The answer's timestamp is the store's, which
\* is the zero time after an error.
handleStations(order, live) ==
    \E read \in {ReadLatestStations(order)} :
        /\ tRet' = read
        /\ wStations' =
              IF read.err = ""
              THEN [status |-> 200, storeErr |-> "", live |-> FALSE,
                    timestamp |-> read.timestamp]
              ELSE IF live
              THEN [status |-> 200, storeErr |-> read.err, live |-> TRUE,
                    timestamp |-> read.timestamp]
              ELSE [status |-> 500, storeErr |-> read.err, live |-> FALSE,
                    timestamp |-> ZeroTime]
        /\ UNCHANGED <<tDataDir, tDirState, tEntries, tNow, tWrites, tOpen>>
        /\ UNCHANGED <<wStore, wNow, wStarted, wReq, historyCache, historyCacheTime,
                       historyCacheMu, snapshotCache, snapshotCacheMu, wLastHistory,
                       wServed, wSnaps, codecVars, r2Vars, namingVars, serverVars,
                       collectorVars>>

NextStations ==
    \/ TSVTick
    \/ \E stations \in WriteLists, fault \in {"none", "mkdir", "create", "flush"} :
          TSVWriteStations(stations, fault)
    \/ \E order \in ListingOrders(DOMAIN tEntries), live \in BOOLEAN :
          handleStations(order, live)

-----------------------------------------------------------------------------
(* Claims on the web handler (SpecWeb) *)

\* C11: when a /api/history request has completed with success at time t, a
\* later request that arrives before t + 10 minutes with no other request in
\* flight is answered from the cache, with the data points of the completed
\* request and without a call of GetHistoricalData, whatever the series is
\* (the empty one included).
C11_AggregateCacheFreshness ==
    \A r \in Slots :
        (wReq[r].kind = "history" /\ wReq[r].due.on)
            => /\ ~wReq[r].called
               /\ wReq[r].pc = "respond" => wReq[r].data.points = wReq[r].due.data.points

\* C12: once a /api/history/snapshot request for an instant has completed with
\* success, every later request whose parameter denotes that instant, in any
\* offset, is answered from snapshotCache without a backend call, and no entry
\* of snapshotCache is ever removed.
C12_SnapshotCache ==
    /\ \A r \in Slots :
          (wReq[r].kind = "snapshot" /\ wReq[r].due.on)
              => /\ ~wReq[r].called
                 /\ wReq[r].pc \in {"check", "respond"}
    /\ wServed \subseteq DOMAIN snapshotCache

\* a later request for an instant served before, sent with another offset, is
\* being answered from the cache
C12_Witness ==
    \E r \in Slots :
        /\ wReq[r].kind = "snapshot" /\ wReq[r].due.on /\ wReq[r].pc = "respond"
        /\ ~wReq[r].called
        /\ wReq[r].param = "2026-02-10T00:59:58+01:00"
        /\ wServed = {"2026-02-09T23:59:58Z"}

\* the mutexes a request holds
Holds(mu, r) == r \in mu.readers \/ mu.writer = r

\* C13: a request holds neither mutex, for reading or for writing, while its
\* backend call is in progress, and a mutex is held for writing only for the
\* assignment that installs the result.
C13_NoLockAcrossIO ==
    \A r \in Slots :
        /\ wReq[r].pc = "call" => ~Holds(historyCacheMu, r) /\ ~Holds(snapshotCacheMu, r)
        /\ (historyCacheMu.writer = r \/ snapshotCacheMu.writer = r)
               => wReq[r].pc = "install"

\* a backend call is in progress while another request installs its result
C13_Witness ==
    \E r \in Slots, o \in Slots :
        /\ wReq[r].pc = "call"
        /\ wReq[o].pc = "install" /\ wReq[o].kind = wReq[r].kind
        /\ Holds(IF IsHistory(o) THEN historyCacheMu ELSE snapshotCacheMu, o)

\* the caches of the handler
Caches == <<historyCache, historyCacheTime, snapshotCache>>

\* C26: a request that fails is answered with the status of its failure and
\* changes no cache: an error of GetHistoricalData or GetSnapshotByTimestamp is
\* answered 500, a store without the capability 501, a missing or malformed
\* timestamp parameter 400, each in a step that leaves historyCache,
\* historyCacheTime and snapshotCache as they are; a request with an error
\* status only has its response left to write, and the caches change only in
\* the install step of a request that is answered 200.
C26_FailedRequestsKeepCaches ==
    [][/\ Caches' # Caches
            => \E r \in Slots :
                  /\ wReq[r].pc = "install" /\ wReq[r].status = 200
                  /\ wReq'[r].pc = "respond" /\ wReq'[r].status = 200
       /\ \A r \in Slots :
             /\ wReq'[r].status \in {400, 500, 501} => wReq'[r].pc = "respond"
             /\ (wReq[r].pc = "call" /\ wReq'[r].pc = "respond")
                    => wReq'[r].status = 500 /\ Caches' = Caches
             /\ (wReq[r].pc = "" /\ wReq'[r].kind = "history" /\ wStore # "r2")
                    => wReq'[r].status = 501 /\ Caches' = Caches
             /\ (wReq[r].pc = "" /\ wReq'[r].kind = "snapshot"
                    /\ ~ParseRFC3339(wReq'[r].param).ok)
                    => wReq'[r].status = 400 /\ Caches' = Caches
             /\ (wReq[r].pc = "check" /\ wReq[r].kind = "snapshot" /\ wStore # "r2")
                    => wReq'[r].status \in {0, 501} /\ Caches' = Caches]_vars

\* a snapshot request whose backend call failed is about to be answered 500
\* while snapshotCache holds the result of an earlier request
C26_Witness ==
    \E r \in Slots :
        /\ wReq[r].kind = "snapshot" /\ wReq[r].pc = "respond"
        /\ wReq[r].called /\ wReq[r].status = 500
        /\ DOMAIN snapshotCache # {}
        /\ wReq[r].key \notin DOMAIN snapshotCache

\* the mutex of the handler that serves a request
MutexOf(r) == IF IsHistory(r) THEN historyCacheMu ELSE snapshotCacheMu

\* C28: a request that has its response left to write, or has returned, holds
\* no mutex, whatever its path was (hit, miss, unsupported store, backend
\* error); no request holds both mutexes at once; and no request is ever
\* stuck: a request in flight can take its next step (its backend call
\* returning is one), or it waits for a mutex whose holder is at its install
\* and can take that step, which releases the mutex. Each step moves a request
\* forward on its path, so every request completes.
C28_LocksReleased ==
    \A r \in Slots :
        /\ ~(Holds(historyCacheMu, r) /\ Holds(snapshotCacheMu, r))
        /\ wReq[r].pc \in {"", "respond"}
               => ~Holds(historyCacheMu, r) /\ ~Holds(snapshotCacheMu, r)
        /\ wReq[r].pc # ""
               => \/ ENABLED HandlerStep(r)
                  \/ \E o \in Slots \ {r} :
                         /\ wReq[o].pc = "install" /\ MutexOf(r).writer = o
                         /\ ENABLED HandlerStep(o)

\* with the goroutines scheduled and the backend calls returning, every
\* request that has started completes
AllRequestsComplete ==
    \A r \in Slots : (wReq[r].pc # "") ~> (wReq[r].pc = "")

\* a request waits in Lock() for the mutex that another request of its handler
\* holds for its install
C28_Witness ==
    \E r \in Slots, o \in Slots :
        /\ wReq[r].pc = "lock"
        /\ wReq[o].pc = "install" /\ wReq[o].kind = wReq[r].kind
        /\ MutexOf(o).writer = o /\ ~ENABLED HandlerStep(r)

\* C23: the series in historyCache never goes back to the one of an older
\* listing of the store: whatever the interleaving of /api/history requests
\* that miss the cache, an install never replaces the cached series by a
\* series computed from fewer snapshots than the cached one (the store only
\* grows, so the series of a later listing is never the shorter one).
C23_CacheNeverGoesBackwards ==
    [][Len(historyCache'.points) >= Len(historyCache.points)]_vars

\* C24: the station list that snapshotCache holds for an instant is the one
\* GetSnapshotByTimestamp returns for that instant on the snapshots now in the
\* store, also after a snapshot nearer to the instant has been written.
C24_CacheAgreesWithRecomputation ==
    \A key \in DOMAIN snapshotCache :
        \E res \in SnapshotResults(wSnaps, ParseRFC3339(key).t.sec) :
            res.ok /\ res.data = snapshotCache[key]

\* C18: when ReadLatestStations fails because the data directory cannot be
\* read (and not because no snapshot exists), GET /api/stations answers 500.
C18_SubstrateFailure500 ==
    wStations.storeErr = ErrReadDir => wStations.status = 500

-----------------------------------------------------------------------------
(* Specifications: each runs one part of the system and holds the rest still *)

CodecIdle ==
    /\ cSource = "raw" /\ cStations = <<>> /\ cTick = 0 /\ cBody = ""
    /\ cPhase = "encoded" /\ cTSV = NotRun /\ cR2 = NotRun

TSVIdle ==
    /\ tDataDir = "data" /\ tDirState = "missing" /\ tEntries = <<>>
    /\ tNow = 0 /\ tWrites = 0 /\ tRet = NoRet /\ tOpen = NoWrite

R2Idle ==
    /\ rPrefix = "snapshots/" /\ rObjects = <<>> /\ rNow = 0 /\ rWrites = 0
    /\ rRet = NoR2Ret /\ rFirst = <<>> /\ rRewritten = {}

NamingIdle ==
    /\ nPrefix = "snapshots/" /\ nT1 = 0 /\ nT2 = 0 /\ nKey1 = "" /\ nKey2 = ""

ServerIdle ==
    /\ sArgs = <<>> /\ sEnv = NoEnv /\ sPc = "main" /\ sUseR2 = FALSE
    /\ sPort = 0 /\ sDataDir = "" /\ sStore = ""

CollectorIdle ==
    /\ kMode = "r2" /\ kOneShot = FALSE /\ kPc = "start" /\ kInitial = TRUE /\ kCtx = ""
    /\ kResp = "" /\ kTick = FALSE /\ kSig = FALSE /\ kFired = 0 /\ kWrites = 0

WebIdle ==
    /\ wStore = "r2" /\ wNow = 0 /\ wStarted = 0 /\ wReq = [r \in Slots |-> NoRequest]
    /\ historyCache = NilSeries /\ historyCacheTime = 0 /\ historyCacheMu = Unlocked
    /\ snapshotCache = <<>> /\ snapshotCacheMu = Unlocked
    /\ wLastHistory = NoHistory /\ wServed = {} /\ wStations = NoResponse
    /\ wSnaps = {}

\* the initial states of each specification
StartCodec == InitCodec /\ TSVIdle /\ R2Idle /\ NamingIdle /\ ServerIdle
    /\ CollectorIdle /\ WebIdle

StartTSV == InitTSV /\ CodecIdle /\ R2Idle /\ NamingIdle /\ ServerIdle
    /\ CollectorIdle /\ WebIdle

StartR2 == InitR2 /\ CodecIdle /\ TSVIdle /\ NamingIdle /\ ServerIdle
    /\ CollectorIdle /\ WebIdle

StartNaming == InitNaming /\ CodecIdle /\ TSVIdle /\ R2Idle /\ ServerIdle
    /\ CollectorIdle /\ WebIdle

StartServer ==
    InitServer /\ CodecIdle /\ TSVIdle /\ R2Idle /\ NamingIdle /\ CollectorIdle
    /\ WebIdle

StartCollector ==
    InitCollector /\ CodecIdle /\ TSVIdle /\ R2Idle /\ NamingIdle /\ ServerIdle
    /\ WebIdle

StartWeb ==
    InitWeb /\ CodecIdle /\ TSVIdle /\ R2Idle
    /\ NamingIdle /\ ServerIdle /\ CollectorIdle

StartTorn ==
    InitTorn /\ CodecIdle /\ R2Idle /\ NamingIdle /\ ServerIdle
    /\ CollectorIdle /\ WebIdle

StartWebStore ==
    InitWebStore /\ CodecIdle /\ TSVIdle /\ R2Idle
    /\ NamingIdle /\ ServerIdle /\ CollectorIdle

StartStations ==
    InitTSV /\ InitStations /\ CodecIdle /\ R2Idle
    /\ NamingIdle /\ ServerIdle /\ CollectorIdle

SpecCodec == StartCodec /\ [][NextCodec]_vars

SpecTSV == StartTSV /\ [][NextTSV]_vars

SpecR2 == StartR2 /\ [][NextR2]_vars

SpecHistory == StartR2 /\ [][NextHistory]_vars

SpecNaming == StartNaming /\ [][NextNaming]_vars

SpecServer == StartServer /\ [][NextServer]_vars

SpecCollector == StartCollector /\ [][NextCollector]_vars

\* the collector with its scheduling: a call that can return does, and a
\* select with a ready case takes one
SpecCollectorFair ==
    /\ StartCollector /\ [][NextCollector]_vars
    /\ WF_vars(\E ok \in BOOLEAN, resp \in Responses : FetchStationsReturns(ok, resp))
    /\ WF_vars(WriteStationsReturns)
    /\ WF_vars(SelectTick \/ SelectSignal)

SpecWeb == StartWeb /\ [][NextWeb]_vars

\* the handler with its goroutines scheduled and its backend calls returning
SpecWebFair ==
    StartWeb /\ [][NextWeb]_vars /\ WF_vars(\E r \in Slots : HandlerStep(r))

SpecWebStore == StartWebStore /\ [][NextWebStore]_vars

SpecStations == StartStations /\ [][NextStations]_vars

SpecTorn == StartTorn /\ [][NextTorn]_vars

====
